---- MODULE Spec2Model ----
(***************************************************************************)
(* A model of the binary (HWP v5) half of hanpama/hwp:                     *)
(*   - ContentScanner (internal/hwpv5/content_scanner.go): the assembly    *)
(*     state machine that turns the flat record stream into nodes;         *)
(*   - Reader (OpenReader / OpenSection): the layered stream access;       *)
(*   - cryptoReader (internal/hwpv5/crypto.go): streaming ECB decryption;  *)
(*   - RecScanner.ScanNext (internal/hwpv5/record.go): record framing;     *)
(*   - Table.Render (internal/render/table.go): the ASCII table layout;    *)
(*   - RenderText (internal/render): the plain-text output of the nodes;   *)
(*   - deriveKey (internal/hwpv5/crypto.go): the distribution key;         *)
(*   - paraTextDecoder (internal/hwpv5): the elements of paragraph text.   *)
(* Each part has its own specification over its own variables; the         *)
(* variables of the other parts stay at their idle values.                 *)
(***************************************************************************)
EXTENDS Integers, Sequences, FiniteSets, TLC

VARIABLES
    cs,         \* the ContentScanner struct
    env,        \* what the scanner reads from: the reader's sections
    pc,         \* where the caller / Next / skipChildren stands
    frame,      \* the running skipChildren call: its argument and its call site
    ret,        \* what the last completed Next call returned
    hist,       \* what has been observed so far: errors met, cells opened
    rs,         \* a RecScanner, the byte stream under it and its last result
    cr,         \* a cryptoReader, the stream under it and what it delivered
    rd,         \* a Reader, the document under it and what opening it did
    tb,         \* a render.Table and how far Render has laid it out
    rt,         \* a RenderText call: the nodes left, the writer, the result
    dk,         \* a deriveKey call: its argument and its result
    pd          \* a paraTextDecoder: the payload, the cursor, what it decoded

scanVars == <<cs, env, pc, frame, ret, hist>>

vars == <<cs, env, pc, frame, ret, hist, rs, cr, rd, tb, rt, dk, pd>>

\* the values of the variables of the parts a specification leaves alone
Idle == [idle |-> TRUE]

(***************************************************************************)
(* Bounds of the model.                                                    *)
(***************************************************************************)
MaxLvl == 2         \* record levels are 0..MaxLvl
MaxRecs == 6        \* records decoded from the section streams of one run
MaxSections == 2    \* sections of a document

Lvls == 0..MaxLvl

(***************************************************************************)
(* Records as ScanNext returns them (record.go:63-121).  `type` is the Go  *)
(* type chosen by ScanNext's dispatch; the fields a type does not have     *)
(* stay zero.                                                              *)
(***************************************************************************)
CtrlIDTable == 1952607264   \* 0x74626c20, 'tbl '
CtrlIDGso == 1735618336     \* 0x67736f20, 'gso '
CtrlIDOther == CtrlIDGso + 1    \* some control that is neither

MkRec(type, lvl) ==
    [type |-> type, lvl |-> lvl, Els |-> <<>>, CtrlID |-> 0,
     RowCount |-> 0, ColCount |-> 0, IsCell |-> FALSE,
     RowIndex |-> 0, ColIndex |-> 0, RowSpan |-> 0, ColSpan |-> 0]

NilRec == MkRec("nil", 0)

\* Paragraph text elements (part_001:68-91); text is a sequence of characters.
ElString(v) == [el |-> "ParaTextString", Value |-> v]
ElLineBreak == [el |-> "ParaTextLineBreak", Value |-> <<>>]
ElTab == [el |-> "ParaTextTab", Value |-> <<>>]
ElFieldStart == [el |-> "ParaTextFieldStart", Value |-> <<>>]

ElsChoices ==
    { <<ElString(<<"a">>)>>,
      <<ElFieldStart, ElTab, ElString(<<"b">>), ElLineBreak>> }

CellChoices ==
    { [RowIndex |-> 0, ColIndex |-> 0, RowSpan |-> 1, ColSpan |-> 1],
      [RowIndex |-> 1, ColIndex |-> 1, RowSpan |-> 2, ColSpan |-> 2] }

TableChoices ==
    { [RowCount |-> 0, ColCount |-> 0], [RowCount |-> 1, ColCount |-> 2] }

Recs ==
    {MkRec(t, l) : t \in {"RecParaHeader", "RecParaCharShape", "RecParaLineSeg",
                          "RecPageDef", "RecUnknown"}, l \in Lvls}
    \cup {[MkRec("RecParaText", l) EXCEPT !.Els = e] : l \in Lvls, e \in ElsChoices}
    \cup {[MkRec("RecCtrlHeader", l) EXCEPT !.CtrlID = id] :
              l \in Lvls, id \in {CtrlIDTable, CtrlIDGso, CtrlIDOther}}
    \cup {[MkRec("RecTable", l) EXCEPT !.RowCount = t.RowCount, !.ColCount = t.ColCount] :
              l \in Lvls, t \in TableChoices}
    \cup {MkRec("RecListHeader", l) : l \in Lvls}
    \cup {[MkRec("RecListHeader", l) EXCEPT !.IsCell = TRUE,
              !.RowIndex = c.RowIndex, !.ColIndex = c.ColIndex,
              !.RowSpan = c.RowSpan, !.ColSpan = c.ColSpan] :
              l \in Lvls, c \in CellChoices}

(***************************************************************************)
(* Results of a read: a record, io.EOF, or another error.  Callers tell    *)
(* io.EOF from other errors by ==.                                         *)
(***************************************************************************)
ResRec(r) == [kind |-> "rec", rec |-> r]
ResEOF == [kind |-> "EOF", rec |-> NilRec]
ResErr == [kind |-> "error", rec |-> NilRec]
ResNone == [kind |-> "none", rec |-> NilRec]

(***************************************************************************)
(* Content nodes (document/types.go) and what Next returns.                *)
(***************************************************************************)
NoNode == [kind |-> "none", Text |-> <<>>, Rows |-> 0, Cols |-> 0, Cells |-> <<>>]
ParagraphNode(text) == [NoNode EXCEPT !.kind = "Paragraph", !.Text = text]
TableNode(rows, cols, cells) ==
    [NoNode EXCEPT !.kind = "Table", !.Rows = rows, !.Cols = cols, !.Cells = cells]
ImageNode == [NoNode EXCEPT !.kind = "Image"]
RetEOF == [NoNode EXCEPT !.kind = "EOF"]
RetErr == [NoNode EXCEPT !.kind = "error"]

NodeKinds == {"Paragraph", "Table", "Image"}

(***************************************************************************)
(* The builders (content_scanner.go:28-38).  A nil pointer is the record   *)
(* with nil = TRUE; currentCell is an index into cells, 0 for nil.         *)
(***************************************************************************)
NilPara == [nil |-> TRUE, textParts |-> <<>>]
NewPara == [nil |-> FALSE, textParts |-> <<>>]

NilTable == [nil |-> TRUE, rows |-> 0, cols |-> 0, cells |-> <<>>,
             currentCell |-> 0, tableLevel |-> 0]

RECURSIVE joinTextParts(_)
joinTextParts(parts) ==
    IF Len(parts) = 0 THEN <<>>
    ELSE Head(parts) \o joinTextParts(Tail(parts))

(***************************************************************************)
(* The section streams.  env.strm is the state of the open section's       *)
(* stream: "ok" (more may follow), "drained" (a truncated record consumed  *)
(* the rest of the stream: the next read finds io.EOF) or "broken" (the    *)
(* layered reader keeps returning its error, as compress/flate does).      *)
(* The records themselves are chosen as they are read.                     *)
(***************************************************************************)

\* RecScanner.ScanNext as the scanner sees it: the possible results and the
\* stream state each leaves.
ScanNextOutcomes(e) ==
    CASE e.strm = "ok" ->
            {[env |-> [e EXCEPT !.nread = @ + 1], res |-> ResRec(r)] :
                 r \in IF e.nread < MaxRecs THEN Recs ELSE {}}
            \cup {[env |-> [e EXCEPT !.strm = "drained"], res |-> ResEOF],
                  [env |-> [e EXCEPT !.strm = "drained"], res |-> ResErr],
                  [env |-> [e EXCEPT !.strm = "broken"], res |-> ResErr]}
      [] e.strm = "drained" -> {[env |-> e, res |-> ResEOF]}
      [] OTHER -> {[env |-> e, res |-> ResErr]}

\* Reader.OpenSection as the scanner sees it: a stream, or an error.
OpenSectionOutcomes(e, index) ==
    {[env |-> [e EXCEPT !.strm = "ok", !.opened = Append(@, index),
                         !.events = Append(@, <<"open", index>>)], ok |-> TRUE],
     [env |-> [e EXCEPT !.strm = "none"], ok |-> FALSE]}

\* advanceSection opening the next section with the current one still open
advanceSection_NoClose(c, e) ==
    LET c2 == [c EXCEPT !.currentSection = @ + 1]
    IN  IF c2.currentSection >= e.sectionCount
        THEN {[cs |-> [c2 EXCEPT !.sectionCloser = FALSE, !.scanner = FALSE],
               env |-> [e EXCEPT !.strm = "none"], err |-> ResEOF]}
        ELSE {IF o.ok
              THEN [cs |-> [c2 EXCEPT !.sectionCloser = TRUE, !.scanner = TRUE],
                    env |-> o.env, err |-> ResNone]
              ELSE [cs |-> c2, env |-> o.env, err |-> ResErr]
              : o \in OpenSectionOutcomes(e, c2.currentSection)}

\* advanceSection closing the stream and keeping the record scanner
advanceSection_KeepsScanner(c, e) ==
    LET c1 == IF c.sectionCloser
              THEN [c EXCEPT !.sectionCloser = FALSE]
              ELSE c
        e1 == IF c.sectionCloser
              THEN [e EXCEPT !.strm = "none", !.closed = Append(@, c.currentSection),
                             !.events = Append(@, <<"close", c.currentSection>>)]
              ELSE e
        c2 == [c1 EXCEPT !.currentSection = @ + 1]
    IN  IF c2.currentSection >= e1.sectionCount
        THEN {[cs |-> c2, env |-> e1, err |-> ResEOF]}
        ELSE {IF o.ok
              THEN [cs |-> [c2 EXCEPT !.sectionCloser = TRUE, !.scanner = TRUE],
                    env |-> o.env, err |-> ResNone]
              ELSE [cs |-> c2, env |-> o.env, err |-> ResErr]
              : o \in OpenSectionOutcomes(e1, c2.currentSection)}

\* advanceSection (content_scanner.go:59-79): the set of possible outcomes.
advanceSection(c, e) ==
    LET c1 == IF c.sectionCloser
              THEN [c EXCEPT !.sectionCloser = FALSE, !.scanner = FALSE]
              ELSE c
        e1 == IF c.sectionCloser
              THEN [e EXCEPT !.strm = "none", !.closed = Append(@, c.currentSection),
                             !.events = Append(@, <<"close", c.currentSection>>)]
              ELSE e
        c2 == [c1 EXCEPT !.currentSection = @ + 1]
    IN  IF c2.currentSection >= e1.sectionCount
        THEN {[cs |-> c2, env |-> e1, err |-> ResEOF]}
        ELSE {IF o.ok
              THEN [cs |-> [c2 EXCEPT !.sectionCloser = TRUE, !.scanner = TRUE],
                    env |-> o.env, err |-> ResNone]
              ELSE [cs |-> c2, env |-> o.env, err |-> ResErr]
              : o \in OpenSectionOutcomes(e1, c2.currentSection)}

\* The for loop of nextRecord (content_scanner.go:206-222).
RECURSIVE nextRecordLoop(_, _)
nextRecordLoop(c, e) ==
    IF ~c.scanner
    THEN {[cs |-> c, env |-> e, res |-> ResEOF]}
    ELSE UNION {
           IF o.res.kind = "EOF"
           THEN UNION {IF a.err.kind = "none"
                       THEN nextRecordLoop(a.cs, a.env)
                       ELSE {[cs |-> a.cs, env |-> a.env, res |-> a.err]}
                       : a \in advanceSection(c, o.env)}
           ELSE {[cs |-> c, env |-> o.env, res |-> o.res]}
           : o \in ScanNextOutcomes(e)}

\* nextRecord (content_scanner.go:197-223).
nextRecord(c, e) ==
    IF c.hasBuffered
    THEN {[cs |-> [c EXCEPT !.hasBuffered = FALSE, !.bufferedRec = NilRec],
           env |-> e, res |-> ResRec(c.bufferedRec)]}
    ELSE nextRecordLoop(c, e)

\* a putBack that stores nothing
putBack_Lost(c, rec) == c

\* putBack (content_scanner.go:226-229).
putBack(c, rec) == [c EXCEPT !.bufferedRec = rec, !.hasBuffered = TRUE]

\* finishTable handing the table out and keeping the builder
finishTable_KeepsTable(c) ==
    [cs |-> c,
     table |-> TableNode(c.currentTable.rows, c.currentTable.cols,
                         c.currentTable.cells)]

\* finishTable (content_scanner.go:232-244), called with a table in progress.
finishTable(c) ==
    [cs |-> [c EXCEPT !.currentTable = NilTable],
     table |-> TableNode(c.currentTable.rows, c.currentTable.cols,
                         c.currentTable.cells)]

(***************************************************************************)
(* One iteration of the for loop of Next (content_scanner.go:83-193).      *)
(* The result says what the scanner's fields become and whether the call   *)
(* returns (to = "idle", with the value returned), goes round the loop     *)
(* (to = "loop") or is inside skipChildren (to = "skip").                  *)
(***************************************************************************)
NoFrame == [parentLevel |-> 0, after |-> "none"]

Return(c, v) == [cs |-> c, to |-> "idle", ret |-> v, frame |-> NoFrame]
Continue(c) == [cs |-> c, to |-> "loop", ret |-> NoNode, frame |-> NoFrame]
Skip(c, lvl, after) ==
    [cs |-> c, to |-> "skip", ret |-> NoNode,
     frame |-> [parentLevel |-> lvl, after |-> after]]

\* the element loop with the string elements alone
appendEls_StringsOnly(parts, els) ==
    parts \o [i \in 1 .. Len(SelectSeq(els, LAMBDA el : el.el = "ParaTextString")) |->
                 SelectSeq(els, LAMBDA el : el.el = "ParaTextString")[i].Value]

\* case RecParaText (content_scanner.go:110-123)
appendEls(parts, els) ==
    LET part(el) == CASE el.el = "ParaTextString" -> <<el.Value>>
                      [] el.el = "ParaTextLineBreak" -> << <<"\n">> >>
                      [] el.el = "ParaTextTab" -> << <<"\t">> >>
                      [] OTHER -> <<>>
        RECURSIVE go(_, _)
        go(acc, rest) == IF Len(rest) = 0 THEN acc
                         ELSE go(acc \o part(Head(rest)), Tail(rest))
    IN  go(parts, els)

\* the end of a paragraph with the text appended to the cell's as it is
paraComplete_NoNewline(c) ==
    IF c.currentPara.nil THEN Continue(c)
    ELSE LET text == joinTextParts(c.currentPara.textParts)
             c1 == [c EXCEPT !.currentPara = NilPara]
             t == c.currentTable
         IN  IF ~t.nil /\ t.currentCell # 0
             THEN Continue([c1 EXCEPT
                      !.currentTable.cells[t.currentCell].Text = @ \o text])
             ELSE Return(c1, ParagraphNode(text))

\* case RecParaCharShape, RecParaLineSeg (content_scanner.go:125-141)
paraComplete(c) ==
    IF c.currentPara.nil THEN Continue(c)
    ELSE LET text == joinTextParts(c.currentPara.textParts)
             c1 == [c EXCEPT !.currentPara = NilPara]
             t == c.currentTable
         IN  IF ~t.nil /\ t.currentCell # 0
             THEN LET old == t.cells[t.currentCell].Text
                      new == (IF old # <<>> THEN old \o <<"\n">> ELSE old) \o text
                  IN  Continue([c1 EXCEPT
                          !.currentTable.cells[t.currentCell].Text = new])
             ELSE Return(c1, ParagraphNode(text))

\* the control header switch with the drawing object under the default case
ctrlHeader_GsoNoImage(c, r) ==
    CASE r.CtrlID = CtrlIDTable -> Continue([c EXCEPT !.tableLevel = r.lvl])
      [] OTHER -> Skip(c, r.lvl, "loop")

\* case RecCtrlHeader (content_scanner.go:143-158)
ctrlHeader(c, r) ==
    CASE r.CtrlID = CtrlIDTable -> Continue([c EXCEPT !.tableLevel = r.lvl])
      [] r.CtrlID = CtrlIDGso -> Skip(c, r.lvl, "image")
      [] OTHER -> Skip(c, r.lvl, "loop")

\* the table created at the level of the table record itself
tableRec_OwnLevel(c, r) ==
    IF c.currentTable.nil
    THEN Continue([c EXCEPT !.currentTable =
             [nil |-> FALSE, rows |-> r.RowCount, cols |-> r.ColCount,
              cells |-> <<>>, currentCell |-> 0, tableLevel |-> r.lvl]])
    ELSE Continue(c)

\* case RecTable (content_scanner.go:160-169)
tableRec(c, r) ==
    IF c.currentTable.nil
    THEN Continue([c EXCEPT !.currentTable =
             [nil |-> FALSE, rows |-> r.RowCount, cols |-> r.ColCount,
              cells |-> <<>>, currentCell |-> 0, tableLevel |-> c.tableLevel]])
    ELSE Continue(c)

\* a cell list header that leaves the bounds of the table as declared
listHeader_NoGrow(c, r) ==
    IF ~c.currentTable.nil /\ r.IsCell
    THEN LET t == c.currentTable
             cell == [Row |-> r.RowIndex, Col |-> r.ColIndex,
                      RowSpan |-> r.RowSpan, ColSpan |-> r.ColSpan, Text |-> <<>>]
             cells == Append(t.cells, cell)
         IN  Continue([c EXCEPT !.currentTable =
                 [t EXCEPT !.cells = cells, !.currentCell = Len(cells)]])
    ELSE Continue(c)

\* case RecListHeader (content_scanner.go:171-191)
listHeader(c, r) ==
    IF ~c.currentTable.nil /\ r.IsCell
    THEN LET t == c.currentTable
             rows == IF r.RowIndex + r.RowSpan > t.rows
                     THEN r.RowIndex + r.RowSpan ELSE t.rows
             cols == IF r.ColIndex + r.ColSpan > t.cols
                     THEN r.ColIndex + r.ColSpan ELSE t.cols
             cell == [Row |-> r.RowIndex, Col |-> r.ColIndex,
                      RowSpan |-> r.RowSpan, ColSpan |-> r.ColSpan, Text |-> <<>>]
             cells == Append(t.cells, cell)
         IN  Continue([c EXCEPT !.currentTable =
                 [t EXCEPT !.rows = rows, !.cols = cols, !.cells = cells,
                           !.currentCell = Len(cells)]])
    ELSE Continue(c)

\* with a record of no case taken for the end of the paragraph
noTransition_DropsPara(c, r) == Continue([c EXCEPT !.currentPara = NilPara])

\* a record type with no case in the switch (content_scanner.go:103-192):
\* the loop goes on
noTransition(c, r) == Continue(c)

\* the type switch with a paragraph-text record opening a paragraph when none
\* is open
handleRec_TextOpensPara(c, r) ==
    CASE r.type = "RecParaHeader" -> Continue([c EXCEPT !.currentPara = NewPara])
      [] r.type = "RecParaText" ->
            Continue([c EXCEPT !.currentPara =
                [nil |-> FALSE, textParts |-> appendEls(@.textParts, r.Els)]])
      [] r.type \in {"RecParaCharShape", "RecParaLineSeg"} -> paraComplete(c)
      [] r.type = "RecCtrlHeader" -> ctrlHeader(c, r)
      [] r.type = "RecTable" -> tableRec(c, r)
      [] r.type = "RecListHeader" -> listHeader(c, r)
      [] OTHER -> noTransition(c, r)

\* the type switch (content_scanner.go:103-192)
handleRec(c, r) ==
    CASE r.type = "RecParaHeader" -> Continue([c EXCEPT !.currentPara = NewPara])
      [] r.type = "RecParaText" ->
            IF c.currentPara.nil THEN Continue(c)
            ELSE Continue([c EXCEPT !.currentPara.textParts = appendEls(@, r.Els)])
      [] r.type \in {"RecParaCharShape", "RecParaLineSeg"} -> paraComplete(c)
      [] r.type = "RecCtrlHeader" -> ctrlHeader(c, r)
      [] r.type = "RecTable" -> tableRec(c, r)
      [] r.type = "RecListHeader" -> listHeader(c, r)
      [] OTHER -> noTransition(c, r)

\* the check of line 96 with < written for <=
tableEnded_Strict(c, rec) ==
    ~c.currentTable.nil /\ rec.lvl < c.currentTable.tableLevel

\* the check of line 96 against the pending level of the scanner
tableEnded_PendingLevel(c, rec) ==
    ~c.currentTable.nil /\ rec.lvl <= c.tableLevel

\* the check of content_scanner.go:96
tableEnded(c, rec) ==
    ~c.currentTable.nil /\ rec.lvl <= c.currentTable.tableLevel

\* the error branch without its lines 87-90: the error is returned at once
nextOnErr_DropsTable(c, res) ==
    Return(c, IF res.kind = "EOF" THEN RetEOF ELSE RetErr)

\* the error branch returning the open paragraph before the end
nextOnErr_FlushesPara(c, res) ==
    IF ~c.currentTable.nil
    THEN Return(finishTable(c).cs, finishTable(c).table)
    ELSE IF ~c.currentPara.nil
    THEN Return([c EXCEPT !.currentPara = NilPara],
                ParagraphNode(joinTextParts(c.currentPara.textParts)))
    ELSE Return(c, IF res.kind = "EOF" THEN RetEOF ELSE RetErr)

\* the error branch (content_scanner.go:85-92)
nextOnErr(c, res) ==
    IF ~c.currentTable.nil
    THEN Return(finishTable(c).cs, finishTable(c).table)
    ELSE Return(c, IF res.kind = "EOF" THEN RetEOF ELSE RetErr)

\* the table-end branch (content_scanner.go:96-101)
nextOnTableEnd(c, rec) ==
    Return(putBack(finishTable(c).cs, rec), finishTable(c).table)

\* the body of the loop, given what nextRecord returned
nextBody(c, res) ==
    IF res.kind # "rec" THEN nextOnErr(c, res)
    ELSE IF tableEnded(c, res.rec) THEN nextOnTableEnd(c, res.rec)
    ELSE handleRec(c, res.rec)

\* the loop of skipChildren stopping only below the parent's level
skipBody_SkipsSiblings(c, res, parentLevel) ==
    IF res.kind # "rec"
    THEN [cs |-> c, done |-> TRUE,
          err |-> IF res.kind = "EOF" THEN ResNone ELSE res]
    ELSE IF res.rec.lvl < parentLevel
    THEN [cs |-> putBack(c, res.rec), done |-> TRUE, err |-> ResNone]
    ELSE [cs |-> c, done |-> FALSE, err |-> ResNone]

(***************************************************************************)
(* One iteration of the loop of skipChildren (content_scanner.go:248-262): *)
(* done says whether skipChildren returns, err what it returns.            *)
(***************************************************************************)
skipBody(c, res, parentLevel) ==
    IF res.kind # "rec"
    THEN [cs |-> c, done |-> TRUE,
          err |-> IF res.kind = "EOF" THEN ResNone ELSE res]
    ELSE IF res.rec.lvl <= parentLevel
    THEN [cs |-> putBack(c, res.rec), done |-> TRUE, err |-> ResNone]
    ELSE [cs |-> c, done |-> FALSE, err |-> ResNone]

(***************************************************************************)
(* The scanner's specification.  Init is the state Open returns the        *)
(* scanner in (content_scanner.go:47-56): section 0 is open.               *)
(***************************************************************************)
NoHist == [callErr |-> FALSE, errBefore |-> FALSE, errReported |-> FALSE,
           cellLog |-> <<>>, declared |-> <<0, 0>>, skipped |-> 0,
           paraIn |-> "none", staleReturned |-> FALSE,
           processed |-> 0, pending |-> NilRec, pushes |-> 0, eofBefore |-> FALSE,
           closed |-> 0, startLevel |-> 0, redeclared |-> FALSE,
           twice |-> FALSE]

ScanInit ==
    /\ cs = [currentSection |-> 0, scanner |-> TRUE, sectionCloser |-> TRUE,
             bufferedRec |-> NilRec, hasBuffered |-> FALSE,
             currentPara |-> NilPara, currentTable |-> NilTable, tableLevel |-> 0]
    /\ \E n \in 1..MaxSections :
          env = [sectionCount |-> n, strm |-> "ok", nread |-> 0,
                 opened |-> <<0>>, closed |-> <<>>, events |-> << <<"open", 0>> >>]
    /\ pc = "idle"
    /\ frame = NoFrame
    /\ ret = NoNode
    /\ hist = NoHist
    /\ rs = Idle /\ cr = Idle /\ rd = Idle
    /\ tb = Idle /\ rt = Idle /\ dk = Idle /\ pd = Idle

(***************************************************************************)
(* What an observer of the run has seen once a read is done and the        *)
(* iteration ends in `to`, returning `v`:                                  *)
(*   callErr      an error other than io.EOF was met in the running call;  *)
(*   errBefore    one was met in an earlier call;                          *)
(*   errReported  an earlier call returned an error other than io.EOF;     *)
(*   cellLog      the (row, col) of the cell list headers read inside the  *)
(*                table in progress, in the order they were read;          *)
(*   declared     the row and column counts of the table record that       *)
(*                created the table in progress;                           *)
(*   skipped      the number of records the running or the last            *)
(*                skipChildren call has consumed, 0 once Next reads again; *)
(*   paraIn       "table" when the open paragraph holds text of a          *)
(*                paragraph-text record read inside the table in progress, *)
(*                "stale" when that table has been returned since;         *)
(*   staleReturned  the running or the last call returned a Paragraph      *)
(*                whose paraIn was "stale";                                *)
(*   processed    the number of records that went through the switch of    *)
(*                Next or were consumed by skipChildren;                   *)
(*   pending      the record that the table-end check or skipChildren      *)
(*                turned away last, until it is processed, and `pushes`    *)
(*                the number of times it was turned away;                  *)
(*   eofBefore    an earlier call returned io.EOF;                         *)
(*   closed       0 until a char-shape or line-segment record has closed   *)
(*                the paragraph of the last paragraph header, and then 1   *)
(*                plus the number of char-shape, line-segment and          *)
(*                paragraph-text records processed since;                  *)
(*   startLevel   the pending table level at the time the table record     *)
(*                created the table in progress;                           *)
(*   redeclared   a further table record has been processed inside the     *)
(*                table in progress;                                       *)
(*   twice        some record has been turned away twice.                  *)
(***************************************************************************)
histAfter(c, res, to, v) ==
    LET h == IF pc = "idle"
             THEN [hist EXCEPT !.callErr = FALSE,
                               !.errBefore = hist.errBefore \/ hist.callErr,
                               !.errReported = @ \/ ret.kind = "error",
                               !.eofBefore = @ \/ ret.kind = "EOF"]
             ELSE hist
        isCell == /\ pc # "skip"
                  /\ res.kind = "rec"
                  /\ res.rec.type = "RecListHeader"
                  /\ res.rec.IsCell
                  /\ ~c.currentTable.nil
        isTable == /\ pc # "skip"
                   /\ res.kind = "rec"
                   /\ res.rec.type = "RecTable"
                   /\ c.currentTable.nil
        switched(types) == /\ pc # "skip"
                           /\ res.kind = "rec"
                           /\ res.rec.type \in types
                           /\ ~tableEnded(c, res.rec)
        turnedAway == /\ res.kind = "rec"
                      /\ IF pc = "skip" THEN res.rec.lvl <= frame.parentLevel
                         ELSE tableEnded(c, res.rec)
    IN  [h EXCEPT !.callErr = @ \/ res.kind = "error",
                  !.cellLog = IF to = "idle" /\ v.kind = "Table" THEN <<>>
                              ELSE IF isCell
                              THEN Append(@, <<res.rec.RowIndex, res.rec.ColIndex>>)
                              ELSE @,
                  !.declared = IF to = "idle" /\ v.kind = "Table" THEN <<0, 0>>
                               ELSE IF isTable
                               THEN <<res.rec.RowCount, res.rec.ColCount>>
                               ELSE @,
                  !.skipped = IF pc # "skip" THEN 0
                              ELSE IF res.kind = "rec" /\ to = "skip" THEN @ + 1
                              ELSE @,
                  !.paraIn =
                      CASE to = "idle" /\ v.kind = "Table" ->
                              IF @ = "table" THEN "stale" ELSE @
                        [] switched({"RecParaHeader", "RecParaCharShape",
                                     "RecParaLineSeg"}) -> "none"
                        [] /\ switched({"RecParaText"})
                           /\ ~c.currentPara.nil
                           /\ ~c.currentTable.nil
                           /\ appendEls(<<>>, res.rec.Els) # <<>> -> "table"
                        [] OTHER -> @,
                  !.staleReturned =
                      IF pc = "idle" THEN to = "idle" /\ v.kind = "Paragraph" /\ h.paraIn = "stale"
                      ELSE @ \/ (to = "idle" /\ v.kind = "Paragraph" /\ h.paraIn = "stale"),
                  !.processed = IF res.kind = "rec" /\ ~turnedAway THEN @ + 1 ELSE @,
                  !.pending = IF turnedAway THEN res.rec
                              ELSE IF res.kind = "rec" THEN NilRec ELSE @,
                  !.pushes = IF turnedAway THEN @ + 1
                             ELSE IF res.kind = "rec" THEN 0 ELSE @,
                  !.closed =
                      CASE switched({"RecParaHeader"}) -> 0
                        [] switched({"RecParaCharShape", "RecParaLineSeg"})
                           /\ @ = 0 -> IF c.currentPara.nil THEN 0 ELSE 1
                        [] switched({"RecParaCharShape", "RecParaLineSeg",
                                     "RecParaText"})
                           /\ @ > 0 -> @ + 1
                        [] OTHER -> @,
                  !.startLevel = IF to = "idle" /\ v.kind = "Table" THEN 0
                                 ELSE IF isTable THEN c.tableLevel
                                 ELSE @,
                  !.redeclared = IF to = "idle" /\ v.kind = "Table" THEN FALSE
                                 ELSE IF isTable THEN FALSE
                                 ELSE @ \/ (switched({"RecTable"}) /\ ~c.currentTable.nil),
                  !.twice = @ \/ (turnedAway /\ hist.pushes >= 1)]

\* Next is called, or goes round its loop once more
NextIter ==
    /\ pc \in {"idle", "loop"}
    /\ \E o \in nextRecord(cs, env) :
          LET s == nextBody(o.cs, o.res)
          IN  /\ cs' = s.cs
              /\ env' = o.env
              /\ pc' = s.to
              /\ frame' = s.frame
              /\ ret' = s.ret
              /\ hist' = histAfter(o.cs, o.res, s.to, s.ret)
    /\ UNCHANGED <<rs, cr, rd, tb, rt, dk, pd>>

\* skipChildren goes round its loop; when it returns, Next drops its error
\* and returns the Image (line 153) or goes on with its loop (line 157)
SkipIter ==
    /\ pc = "skip"
    /\ \E o \in nextRecord(cs, env) :
          LET s == skipBody(o.cs, o.res, frame.parentLevel)
              to == IF ~s.done THEN "skip"
                    ELSE IF frame.after = "image" THEN "idle" ELSE "loop"
              v == IF to = "idle" THEN ImageNode ELSE NoNode
          IN  /\ cs' = s.cs
              /\ env' = o.env
              /\ pc' = to
              /\ frame' = IF s.done THEN NoFrame ELSE frame
              /\ ret' = v
              /\ hist' = histAfter(o.cs, o.res, to, v)
    /\ UNCHANGED <<rs, cr, rd, tb, rt, dk, pd>>

ScanStep == NextIter \/ SkipIter

Spec == ScanInit /\ [][ScanStep]_vars

(***************************************************************************)
(* Claims about the assembly state machine.  A claim about what Next does  *)
(* with the next record is stated in every reachable state where Next is   *)
(* about to read (pc is "idle" or "loop"), for every result nextRecord can *)
(* give there.                                                             *)
(***************************************************************************)
InNext == pc \in {"idle", "loop"}

TableInProgress == ~cs.currentTable.nil

\* the table in progress, as a node
BuiltTable ==
    TableNode(cs.currentTable.rows, cs.currentTable.cols, cs.currentTable.cells)

\* the (row, col) of the cells of a cell list, in list order
CellCoords(cells) == [i \in 1..Len(cells) |-> <<cells[i].Row, cells[i].Col>>]

\* a read that takes the buffered record and nothing else
TakesBuffered(c, e, rec) ==
    nextRecord(c, e) =
        {[cs |-> [c EXCEPT !.hasBuffered = FALSE, !.bufferedRec = NilRec],
          env |-> e, res |-> ResRec(rec)]}

\* C1: while a table is in progress, a next record whose level is at or below
\* the table's start level makes Next return the table with all the cells
\* accumulated so far, before the record has any effect (the open paragraph
\* and the pending table level are as they were); the record is pushed back,
\* no table is in progress, and the following Next call reads exactly that
\* record first.
C1_TableTermination ==
    (InNext /\ TableInProgress) =>
        \A o \in nextRecord(cs, env) :
            (o.res.kind = "rec" /\ o.res.rec.lvl <= cs.currentTable.tableLevel) =>
                LET s == nextBody(o.cs, o.res)
                IN  /\ s.to = "idle"
                    /\ s.ret = BuiltTable
                    /\ s.cs.currentTable.nil
                    /\ s.cs.hasBuffered
                    /\ s.cs.bufferedRec = o.res.rec
                    /\ s.cs.currentPara = cs.currentPara
                    /\ s.cs.tableLevel = cs.tableLevel
                    /\ TakesBuffered(s.cs, o.env, o.res.rec)

\* a table with a cell that holds text was returned on a level drop
C1_Witness ==
    /\ pc = "idle"
    /\ ret.kind = "Table"
    /\ Len(ret.Cells) >= 1
    /\ ret.Cells[1].Text # <<>>
    /\ cs.hasBuffered
    /\ cs.currentTable.nil

\* C2: when the last section's stream ends while a table is in progress, Next
\* returns one Table node holding every cell accumulated so far, in the order
\* the cell list headers were read; no table is then in progress and the
\* following Next call returns EndOfContent.
C2_TableAtEndOfStream ==
    (InNext /\ TableInProgress) =>
        /\ CellCoords(cs.currentTable.cells) = hist.cellLog
        /\ \A o \in nextRecord(cs, env) :
              o.res.kind = "EOF" =>
                  LET s == nextBody(o.cs, o.res)
                  IN  /\ s.to = "idle"
                      /\ s.ret = BuiltTable
                      /\ CellCoords(s.ret.Cells) = hist.cellLog
                      /\ s.cs.currentTable.nil
                      /\ \A o2 \in nextRecord(s.cs, o.env) :
                            /\ o2.res.kind = "EOF"
                            /\ nextBody(o2.cs, o2.res).to = "idle"
                            /\ nextBody(o2.cs, o2.res).ret = RetEOF

\* a table of two cells was returned at the end of the last section
C2_Witness ==
    /\ pc = "idle"
    /\ ret.kind = "Table"
    /\ Len(ret.Cells) >= 2
    /\ ret.Cells[1] # ret.Cells[2]
    /\ ~cs.hasBuffered
    /\ ~cs.scanner
    /\ cs.currentSection >= env.sectionCount
    /\ ~hist.callErr /\ ~hist.errBefore

\* C3: every decode error other than io.EOF aborts scanning: the Next call in
\* which it is met returns an error, and no call made after it returns a node.
C3_ErrorsAbortScanning ==
    pc = "idle" =>
        /\ hist.callErr => ret.kind = "error"
        /\ hist.errBefore => ret.kind \notin NodeKinds

\* C5: the builders are carried unchanged over a section boundary, and, in a
\* run in which Next has reported no error, EndOfContent is returned only
\* after the last section's stream is exhausted.
C5_SectionsTransparent ==
    /\ InNext =>
          \A o \in nextRecord(cs, env) :
              /\ o.cs.currentPara = cs.currentPara
              /\ o.cs.currentTable = cs.currentTable
              /\ o.cs.tableLevel = cs.tableLevel
    /\ (pc = "idle" /\ ret.kind = "EOF" /\ ~hist.errReported) =>
          /\ cs.currentSection >= env.sectionCount
          /\ env.opened = [i \in 1..env.sectionCount |-> i - 1]

(***************************************************************************)
(* RecScanner.ScanNext (record.go:132-218) over a stream of bytes.         *)
(* A uint32 read from the stream is kept as its four little-endian bytes   *)
(* b[1..4]; the masks and shifts of lines 139-141 are taken on the bytes.  *)
(***************************************************************************)
recTagBegin == 16
recTagParaHeader == recTagBegin + 50
recTagParaText == recTagBegin + 51
recTagParaCharShape == recTagBegin + 52
recTagParaLineSeg == recTagBegin + 53
recTagParaRangeTag == recTagBegin + 54
recTagCtrlHeader == recTagBegin + 55
recTagListHeader == recTagBegin + 56
recTagPageDef == recTagBegin + 57
recTagFootnoteShape == recTagBegin + 58
recTagPageBorderFill == recTagBegin + 59
recTagShapeComponent == recTagBegin + 60
recTagTable == recTagBegin + 61
recTagShapeComponentLine == recTagBegin + 62
recTagShapeComponentRectangle == recTagBegin + 63
recTagShapeComponentEllipse == recTagBegin + 64
recTagShapeComponentArc == recTagBegin + 65
recTagShapeComponentPolygon == recTagBegin + 66
recTagShapeComponentCurve == recTagBegin + 67
recTagShapeComponentOLE == recTagBegin + 68
recTagShapeComponentPicture == recTagBegin + 69
recTagShapeComponentContainer == recTagBegin + 70
recTagCtrlData == recTagBegin + 71
recTagEqEdit == recTagBegin + 72
recTagShapeComponentTextArt == recTagBegin + 74
recTagFormObject == recTagBegin + 75
recTagMemoShape == recTagBegin + 76
recTagMemoList == recTagBegin + 77
recTagChartData == recTagBegin + 79
recTagVideoData == recTagBegin + 82
recTagShapeComponentUnknown == recTagBegin + 99

\* the inline size that announces a 32-bit size (record.go:143)
extendedSizeMark == 4095

\* errors: io.EOF and io.ErrUnexpectedEOF are values; fmt.Errorf("...: %w")
\* makes a new value that wraps one, and == tells it from the one it wraps
NoErr == [wrap |-> "", cause |-> "nil"]
ioEOF == [wrap |-> "", cause |-> "EOF"]
ioErrUnexpectedEOF == [wrap |-> "", cause |-> "unexpected EOF"]
Errorf(msg, e) == [wrap |-> msg, cause |-> e.cause]

\* io.ReadFull(r, buf) with len(buf) = k on the bytes from pos on
ReadFull(stream, pos, k) ==
    LET avail == Len(stream) - pos
    IN  IF avail >= k
        THEN [data |-> SubSeq(stream, pos + 1, pos + k), pos |-> pos + k, err |-> NoErr]
        ELSE [data |-> SubSeq(stream, pos + 1, Len(stream)), pos |-> Len(stream),
              err |-> IF avail = 0 THEN ioEOF ELSE ioErrUnexpectedEOF]

\* binary.LittleEndian.Uint16 / Uint32 of the first bytes of b
LEUint16(b) == b[1] + 256 * b[2]
LEUint32(b) == b[1] + 256 * b[2] + 65536 * b[3] + 16777216 * b[4]

\* record.go:139-141 on the header's bytes
headerTagID(b) == b[1] + 256 * (b[2] % 4)                  \* headerRaw & 0x3ff
headerLevel(b) == (b[2] \div 4) + 64 * (b[3] % 16)         \* (headerRaw >> 10) & 0x3ff
headerSize(b) == (b[3] \div 16) + 16 * b[4]                \* (headerRaw >> 20) & 0xfff

\* the records ScanNext returns, with the fields of record.go:63-121; the
\* types that keep no payload have Data = <<>>
TypedRec(type, base) ==
    [type |-> type, TagID |-> base.TagID, Level |-> base.Level, Size |-> base.Size,
     Data |-> <<>>, CtrlID |-> 0, RowCount |-> 0, ColCount |-> 0,
     IsCell |-> FALSE, ParaCount |-> 0, Property |-> 0, ColIndex |-> 0,
     RowIndex |-> 0, ColSpan |-> 0, RowSpan |-> 0]

NoTypedRec == TypedRec("nil", [TagID |-> 0, Level |-> 0, Size |-> 0])

\* decodeCtrlHeaderRecord (record.go:241-247)
decodeCtrlHeaderRecord(b, data) ==
    [TypedRec("RecCtrlHeader", b) EXCEPT
        !.Data = data,
        !.CtrlID = IF Len(data) >= 4 THEN LEUint32(data) ELSE 0]

\* the list header decoder taking a payload of 32 bytes for a cell's
decodeListHeaderRecord_Min32(b, data) ==
    LET r0 == TypedRec("RecListHeader", b)
        r1 == IF Len(data) >= 6
              THEN [r0 EXCEPT !.ParaCount = LEUint16(data),
                              !.Property = LEUint32(SubSeq(data, 3, 6))] ELSE r0
        zeroIsOne(x) == IF x = 0 THEN 1 ELSE x
    IN  IF Len(data) >= 32
        THEN [r1 EXCEPT !.IsCell = TRUE,
                        !.ColIndex = data[7 + 1 + 1],
                        !.RowIndex = data[7 + 3 + 1],
                        !.ColSpan = zeroIsOne(data[7 + 5 + 1]),
                        !.RowSpan = zeroIsOne(data[7 + 7 + 1])]
        ELSE r1

\* decodeListHeaderRecord (record.go:249-278); cellData = data[7:33]
decodeListHeaderRecord(b, data) ==
    LET r0 == TypedRec("RecListHeader", b)
        r1 == IF Len(data) >= 6
              THEN [r0 EXCEPT !.ParaCount = LEUint16(data),
                              !.Property = LEUint32(SubSeq(data, 3, 6))] ELSE r0
        zeroIsOne(x) == IF x = 0 THEN 1 ELSE x
    IN  IF Len(data) >= 33
        THEN [r1 EXCEPT !.IsCell = TRUE,
                        !.ColIndex = data[7 + 1 + 1],
                        !.RowIndex = data[7 + 3 + 1],
                        !.ColSpan = zeroIsOne(data[7 + 5 + 1]),
                        !.RowSpan = zeroIsOne(data[7 + 7 + 1])]
        ELSE r1

\* decodeTableRecord (record.go:296-303)
decodeTableRecord(b, data) ==
    LET r0 == [TypedRec("RecTable", b) EXCEPT !.Data = data]
    IN  IF Len(data) >= 8
        THEN [r0 EXCEPT !.RowCount = LEUint16(SubSeq(data, 5, 6)),
                        !.ColCount = LEUint16(SubSeq(data, 7, 8))]
        ELSE r0

\* the tags whose record type holds the header alone (record.go:220-239, 280-375)
headerOnlyType(tag) ==
    CASE tag = recTagParaHeader -> "RecParaHeader"
      [] tag = recTagParaCharShape -> "RecParaCharShape"
      [] tag = recTagParaLineSeg -> "RecParaLineSeg"
      [] tag = recTagParaRangeTag -> "RecParaRangeTag"
      [] tag = recTagPageDef -> "RecPageDef"
      [] tag = recTagFootnoteShape -> "RecFootnoteShape"
      [] tag = recTagPageBorderFill -> "RecPageBorderFill"
      [] tag = recTagShapeComponent -> "RecShapeComponent"
      [] tag = recTagShapeComponentLine -> "RecShapeComponentLine"
      [] tag = recTagShapeComponentRectangle -> "RecShapeComponentRectangle"
      [] tag = recTagShapeComponentEllipse -> "RecShapeComponentEllipse"
      [] tag = recTagShapeComponentArc -> "RecShapeComponentArc"
      [] tag = recTagShapeComponentPolygon -> "RecShapeComponentPolygon"
      [] tag = recTagShapeComponentCurve -> "RecShapeComponentCurve"
      [] tag = recTagShapeComponentOLE -> "RecShapeComponentOLE"
      [] tag = recTagShapeComponentPicture -> "RecShapeComponentPicture"
      [] tag = recTagShapeComponentContainer -> "RecShapeComponentContainer"
      [] tag = recTagCtrlData -> "RecCtrlData"
      [] tag = recTagEqEdit -> "RecEqEdit"
      [] tag = recTagShapeComponentTextArt -> "RecShapeComponentTextArt"
      [] tag = recTagFormObject -> "RecFormObject"
      [] tag = recTagMemoShape -> "RecMemoShape"
      [] tag = recTagMemoList -> "RecMemoList"
      [] tag = recTagChartData -> "RecChartData"
      [] tag = recTagVideoData -> "RecVideoData"
      [] tag = recTagShapeComponentUnknown -> "RecShapeComponentUnknown"
      [] OTHER -> ""

\* the switch of record.go:154-217
decodeRec(base, data) ==
    CASE base.TagID = recTagParaText -> TypedRec("RecParaText", base)
      [] base.TagID = recTagCtrlHeader -> decodeCtrlHeaderRecord(base, data)
      [] base.TagID = recTagListHeader -> decodeListHeaderRecord(base, data)
      [] base.TagID = recTagTable -> decodeTableRecord(base, data)
      [] headerOnlyType(base.TagID) # "" -> TypedRec(headerOnlyType(base.TagID), base)
      [] OTHER -> [TypedRec("RecUnknown", base) EXCEPT !.Data = data]

\* the error of the payload read, returned as it is
wrapDataErr_Unwrapped(e) == e

\* record.go:151
wrapDataErr(e) == Errorf("read record data", e)

\* with the extended size never read
readSize_InlineOnly(stream, pos, inline) ==
    [size |-> inline, pos |-> pos, err |-> NoErr, extended |-> FALSE]

\* record.go:143-147: the size of the payload, given the inline size
readSize(stream, pos, inline) ==
    IF inline = extendedSizeMark
    THEN LET x == ReadFull(stream, pos, 4)
         IN  IF x.err # NoErr
             THEN [size |-> 0, pos |-> x.pos,
                   err |-> Errorf("read extended size", x.err), extended |-> TRUE]
             ELSE [size |-> LEUint32(x.data), pos |-> x.pos, err |-> NoErr,
                   extended |-> TRUE]
    ELSE [size |-> inline, pos |-> pos, err |-> NoErr, extended |-> FALSE]

\* ScanNext (record.go:132-218) at position pos of the stream: the record or
\* the error returned, the payload read at line 150, whether the extended
\* size was read, and the position the stream is left at
ScanNext(stream, pos) ==
    LET h == ReadFull(stream, pos, 4)
    IN  IF h.err # NoErr
        THEN [rec |-> NoTypedRec, err |-> h.err, data |-> <<>>, extended |-> FALSE,
              pos |-> h.pos]
        ELSE
        LET z == readSize(stream, h.pos, headerSize(h.data))
            base == [TagID |-> headerTagID(h.data), Level |-> headerLevel(h.data),
                     Size |-> z.size]
        IN  IF z.err # NoErr
            THEN [rec |-> NoTypedRec, err |-> z.err, data |-> <<>>,
                  extended |-> z.extended, pos |-> z.pos]
            ELSE
            LET d == ReadFull(stream, z.pos, base.Size)
            IN  IF d.err # NoErr
                THEN [rec |-> NoTypedRec, err |-> wrapDataErr(d.err), data |-> <<>>,
                      extended |-> z.extended, pos |-> d.pos]
                ELSE [rec |-> decodeRec(base, d.data), err |-> NoErr, data |-> d.data,
                      extended |-> z.extended, pos |-> d.pos]

\* the test of content_scanner.go:213 and part_002:54
isEOF(err) == err = ioEOF

(***************************************************************************)
(* The specification of ScanNext: a stream that holds the encodings of one *)
(* to MaxStreamRecs records, the last of them possibly cut short, is       *)
(* scanned record by record.  The encoding is the format's: tag, level     *)
(* and size packed in 10, 10 and 12 bits of a little-endian uint32, a size *)
(* of 0xFFF announcing the real size as a second uint32.                   *)
(***************************************************************************)
MaxStreamRecs == 2  \* records encoded into a stream
MaxKeep == 8        \* a cut-short last record keeps 0..MaxKeep of its bytes, or all but one

LEBytes32(n) == <<n % 256, (n \div 256) % 256, (n \div 65536) % 256, n \div 16777216>>

EncodeHeader(tag, lvl, inline) ==
    <<tag % 256,
      (tag \div 256) + 4 * (lvl % 64),
      (lvl \div 64) + 16 * (inline % 16),
      inline \div 16>>

Encode(r) ==
    LET n == Len(r.payload)
    IN  IF n < extendedSizeMark
        THEN EncodeHeader(r.tag, r.lvl, n) \o r.payload
        ELSE EncodeHeader(r.tag, r.lvl, extendedSizeMark) \o LEBytes32(n) \o r.payload

RECURSIVE EncodeAll(_)
EncodeAll(recs) ==
    IF Len(recs) = 0 THEN <<>> ELSE Encode(Head(recs)) \o EncodeAll(Tail(recs))

Payload(n, seed) == [i \in 1..n |-> (seed + 3 * i) % 256]

\* the first record of a stream: tags of each kind of record type, the least
\* and the greatest level, sizes around the extended-size mark
FirstRecs ==
    {[tag |-> t, lvl |-> l, payload |-> Payload(n, t % 7)] :
        t \in {recTagBegin, recTagParaHeader, recTagCtrlHeader, recTagTable, 1023},
        l \in {0, 1023},
        n \in {0, 1, 9, extendedSizeMark - 1, extendedSizeMark, extendedSizeMark + 1}}

\* the payload of a list header of n bytes: every byte tells its place, but
\* for the column, row, column span and row span at offsets 8, 10, 12, 14
ListPayload(n, x) ==
    [i \in 1 .. n |-> CASE i = 9 -> x[1] [] i = 11 -> x[2]
                        [] i = 13 -> x[3] [] i = 15 -> x[4]
                        [] OTHER -> 100 + i]

\* list headers as the first record: payloads around the 6 and the 33 bytes,
\* spans written and spans left zero
ListHeaderRecs ==
    {[tag |-> recTagListHeader, lvl |-> 1, payload |-> ListPayload(n, x)] :
        n \in {0, 5, 6, 15, 32, 33, 34},
        x \in {<<2, 3, 4, 5>>, <<1, 0, 0, 0>>}}

\* the records that follow it
MoreRecs ==
    {[tag |-> recTagBegin, lvl |-> 1, payload |-> Payload(n, 5)] : n \in {0, 2}}

RecInit ==
    /\ \E first \in FirstRecs \cup ListHeaderRecs :
       \E more \in UNION {[1..k -> MoreRecs] : k \in 0..(MaxStreamRecs - 1)} :
          LET recs == <<first>> \o more
              whole == EncodeAll(recs)
              last == Len(Encode(recs[Len(recs)]))
          IN  \E keep \in {k \in 0..MaxKeep : k <= last} \cup {last - 1, last} :
                 rs = [stream |-> SubSeq(whole, 1, Len(whole) - last + keep),
                       pos |-> 0,
                       recs |-> recs,
                       nrec |-> 0,
                       at |-> 0,
                       called |-> FALSE,
                       pos0 |-> 0,
                       res |-> ScanNext(<<>>, 0)]
    /\ cs = Idle /\ env = Idle /\ pc = Idle /\ frame = Idle /\ ret = Idle
    /\ hist = Idle /\ cr = Idle /\ rd = Idle
    /\ tb = Idle /\ rt = Idle /\ dk = Idle /\ pd = Idle

\* ScanNext is called: nrec counts the records it has returned, at is the
\* place in the stream's records of the one this call was to read
Scan ==
    /\ LET r == ScanNext(rs.stream, rs.pos)
       IN  rs' = [rs EXCEPT !.pos = r.pos,
                            !.nrec = IF r.err = NoErr THEN @ + 1 ELSE @,
                            !.at = rs.nrec + 1,
                            !.called = TRUE,
                            !.pos0 = rs.pos,
                            !.res = r]
    /\ UNCHANGED <<cs, env, pc, frame, ret, hist, cr, rd, tb, rt, dk, pd>>

SpecRec == RecInit /\ [][Scan]_vars

\* where the k-th record of the stream ends when nothing is cut
EndOfRec(k) == Len(EncodeAll(SubSeq(rs.recs, 1, k)))

\* the last call returned the record the stream holds at that place
Decoded == rs.called /\ rs.res.err = NoErr

\* the record types that keep the raw payload (record.go:72-76, 91-96, 117-120)
KeepsPayload(type) == type \in {"RecUnknown", "RecCtrlHeader", "RecTable"}

\* what C9 says of tag, level, size, path and position
C9_Framing ==
    LET in == rs.recs[rs.nrec]
        n == Len(in.payload)
    IN  /\ rs.res.rec.TagID = in.tag
        /\ rs.res.rec.Level = in.lvl
        /\ rs.res.rec.Size = n
        /\ rs.res.data = in.payload
        /\ rs.res.extended = (n >= extendedSizeMark)
        /\ rs.pos = EndOfRec(rs.nrec)

\* C9 as stated: every record, whatever its tag, decodes to the same tag,
\* level, size and payload, by the inline path when n < 0xFFF and by the
\* extended path otherwise, and the scanner is left at the next record.
C9_RoundTrip ==
    Decoded => C9_Framing /\ rs.res.rec.Data = rs.recs[rs.nrec].payload

\* C9 as amended: the same of tag, level and size, the payload bytes being
\* read whole and in order; the record returned holds the payload when its
\* type keeps one (RecUnknown, RecCtrlHeader, RecTable).
C9_RoundTripKept ==
    Decoded =>
        /\ C9_Framing
        /\ KeepsPayload(rs.res.rec.type) => rs.res.rec.Data = rs.recs[rs.nrec].payload

\* a record of 0xFFF bytes or more came back whole, and another after it
C9_Witness ==
    /\ Decoded
    /\ rs.nrec = 2
    /\ Len(rs.recs[1].payload) >= extendedSizeMark
    /\ rs.res.rec.Data = rs.recs[2].payload
    /\ Len(rs.res.rec.Data) > 0

\* C10: ScanNext returns io.EOF exactly when no byte is left where a header
\* would start; a stream that ends inside the header, inside the extended
\* size or before the last payload byte gives an error that is not io.EOF
\* (by the == of the callers) and no record.
C10_EndOfStream ==
    rs.called =>
        /\ isEOF(rs.res.err) <=> rs.pos0 = Len(rs.stream)
        /\ (rs.pos0 < Len(rs.stream) /\ Len(rs.stream) < EndOfRec(rs.at)) =>
              /\ rs.res.err # NoErr
              /\ ~isEOF(rs.res.err)
              /\ rs.res.rec = NoTypedRec

\* the stream ended after a whole header, none of the payload being there
C10_Witness ==
    /\ rs.called
    /\ rs.res.err = Errorf("read record data", ioEOF)
    /\ Len(rs.stream) - rs.pos0 \in {4, 8}

(***************************************************************************)
(* cryptoReader (crypto.go): a reader that decrypts the stream under it    *)
(* one 16-byte block at a time and serves the callers from the block it    *)
(* holds.  The block cipher is the standard library's AES; here it is a    *)
(* keyed permutation of the blocks that is not the identity, Decrypt, the  *)
(* inverse of Encrypt.                                                     *)
(***************************************************************************)
MaxBlocks == 2        \* whole blocks in the encrypted stream

cipherBlockSize == 16 \* crypto.go:26

\* cr.block.Decrypt(blk, blk) (crypto.go:39), and the encryption it undoes
Decrypt(key, blk) ==
    [i \in 1..cipherBlockSize |-> (blk[cipherBlockSize + 1 - i] + 256 - key[i]) % 256]

Encrypt(key, blk) ==
    [i \in 1..cipherBlockSize |->
        (blk[cipherBlockSize + 1 - i] + key[cipherBlockSize + 1 - i]) % 256]

RECURSIVE EncryptECB(_, _)
EncryptECB(key, plain) ==
    IF Len(plain) = 0 THEN <<>>
    ELSE Encrypt(key, SubSeq(plain, 1, cipherBlockSize))
            \o EncryptECB(key, SubSeq(plain, cipherBlockSize + 1, Len(plain)))

\* errors.New of crypto.go:34
errNotAligned == [wrap |-> "encrypted stream not aligned to block size", cause |-> "new"]

\* with a short last block taken for the end of the stream
readBlockErr_ShortIsEOF(err, readBytes) ==
    IF err = ioErrUnexpectedEOF THEN ioEOF ELSE err

\* crypto.go:28-37: the error returned when the block could not be read
readBlockErr(err, readBytes) ==
    IF err = ioEOF /\ readBytes = 0 THEN ioEOF
    ELSE IF err = ioErrUnexpectedEOF THEN errNotAligned
    ELSE err

\* with the block served from its start whatever has been served before
serveFrom_Start(c) == 0

\* crypto.go:20: the bytes of buf not yet served start at ptr
serveFrom(c) == c.ptr

\* crypto.go:19-23: n = copy(p, cr.buf[cr.ptr:]) for a buffer p of plen bytes
serve(c, plen) ==
    LET from == serveFrom(c)
        left == Len(c.buf) - from
        n == IF plen < left THEN plen ELSE left
    IN  [c EXCEPT !.ptr = @ + n,
                  !.out = @ \o SubSeq(c.buf, from + 1, from + n),
                  !.n = n,
                  !.err = NoErr]

\* cryptoReader.Read (crypto.go:18-44) into a buffer of plen bytes
Read(c, plen) ==
    IF c.ptr < Len(c.buf)
    THEN serve(c, plen)
    ELSE LET x == ReadFull(c.src, c.srcPos, cipherBlockSize)
         IN  IF x.err # NoErr
             THEN [c EXCEPT !.srcPos = x.pos, !.n = 0,
                            !.err = readBlockErr(x.err, Len(x.data))]
             ELSE serve([c EXCEPT !.srcPos = x.pos,
                                  !.buf = Decrypt(c.key, x.data),
                                  !.ptr = 0],
                        plen)

\* the sizes of the callers' buffers
BufSizes == {1, 7, cipherBlockSize, cipherBlockSize + 4}

PlainChoices ==
    {[i \in 1..(cipherBlockSize * b) |-> (seed + 5 * i) % 256] :
        b \in 0..MaxBlocks, seed \in {0, 250}}

KeyChoices == {[i \in 1..cipherBlockSize |-> (k * i) % 256] : k \in {3, 37}}

\* what is left of a block that was cut: nothing, or 1 to 15 bytes
TailChoices == {[i \in 1..t |-> 200 + i] : t \in {0, 1, cipherBlockSize - 1}}

\* a cryptoReader as OpenSection makes it (part_002:151) over the encryption
\* of plain followed by tail; plain, out and firstErr record what was
\* encrypted, the bytes delivered and the first error returned
CryptoInit ==
    /\ \E plain \in PlainChoices, key \in KeyChoices, tail \in TailChoices :
          cr = [src |-> EncryptECB(key, plain) \o tail,
                srcPos |-> 0,
                key |-> key,
                buf |-> <<>>,
                ptr |-> 0,
                plain |-> plain,
                out |-> <<>>,
                called |-> FALSE,
                plen |-> 0,
                n |-> 0,
                err |-> NoErr,
                firstErr |-> NoErr]
    /\ cs = Idle /\ env = Idle /\ pc = Idle /\ frame = Idle /\ ret = Idle
    /\ hist = Idle /\ rs = Idle /\ rd = Idle
    /\ tb = Idle /\ rt = Idle /\ dk = Idle /\ pd = Idle

CryptoRead ==
    /\ \E plen \in BufSizes :
          LET c == Read(cr, plen)
          IN  cr' = [c EXCEPT !.called = TRUE,
                              !.plen = plen,
                              !.firstErr = IF @ = NoErr THEN c.err ELSE @]
    /\ UNCHANGED <<cs, env, pc, frame, ret, hist, rs, rd, tb, rt, dk, pd>>

SpecCrypto == CryptoInit /\ [][CryptoRead]_vars

IsPrefix(a, b) == Len(a) <= Len(b) /\ a = SubSeq(b, 1, Len(a))

Aligned == Len(cr.src) % cipherBlockSize = 0

\* C6: over a stream of whole blocks, each Read delivers at least one byte
\* and no more than its buffer holds, the bytes delivered are the plaintext
\* in order, and the Read that finds nothing left, all of the plaintext
\* having been delivered, returns io.EOF with no byte; over an empty stream
\* that is the first Read.
C6_RoundTrip ==
    (Aligned /\ cr.called) =>
        /\ IsPrefix(cr.out, cr.plain)
        /\ \/ cr.err = NoErr /\ cr.n >= 1 /\ cr.n <= cr.plen
           \/ cr.err = ioEOF /\ cr.n = 0 /\ cr.out = cr.plain
        /\ Len(cr.src) = 0 => cr.err = ioEOF

\* the plaintext of MaxBlocks blocks came out whole through buffers that
\* split its blocks, and the stream ended
C6_Witness ==
    /\ Aligned
    /\ Len(cr.plain) = MaxBlocks * cipherBlockSize
    /\ cr.plen = 7
    /\ cr.out = cr.plain
    /\ cr.err = ioEOF

\* C7: over a stream whose length is no multiple of 16, the first error
\* Read returns is the alignment error, which is not io.EOF; it comes with
\* no byte, when all the bytes of the whole blocks have been delivered, and
\* nothing but these bytes is ever delivered.
C7_ShortFinalBlock ==
    (~Aligned /\ cr.called) =>
        /\ IsPrefix(cr.out, cr.plain)
        /\ cr.err = NoErr => cr.n >= 1
        /\ cr.firstErr # NoErr =>
              /\ cr.firstErr = errNotAligned
              /\ ~isEOF(cr.firstErr)
              /\ cr.out = cr.plain
        /\ cr.err # NoErr => cr.n = 0

\* the alignment error came after the whole blocks of a stream that ends
\* one byte short of another
C7_Witness ==
    /\ Len(cr.src) = MaxBlocks * cipherBlockSize + cipherBlockSize - 1
    /\ cr.err = errNotAligned
    /\ cr.out = cr.plain
    /\ Len(cr.out) = MaxBlocks * cipherBlockSize

(***************************************************************************)
(* Opening a document (part_002, fileheader.go, content_scanner.go:41-57). *)
(* The container is given by its streams: the FileHeader stream by its     *)
(* length, signature and properties, the DocInfo stream by its records'    *)
(* bytes as the record scanner receives them, a section stream by the      *)
(* storage it lies in, its first four bytes and the number of bytes after  *)
(* them.  log records the streams opened and the steps OpenSection takes.  *)
(***************************************************************************)
MaxPropsRaw == 15   \* FileHeader properties range over 0..MaxPropsRaw
MaxDocSections == 2 \* section streams in a container

signatureText == "HWP Document File"  \* fileheader.go:10
HWPTAG_DOCUMENT_PROPERTIES == 16      \* part_002:50
HWPTAG_DISTRIBUTE_DOC_DATA == 28      \* part_002:134
distDataSize == 256                   \* part_002:135-136
fileHeaderSize == 256                 \* fileheader.go:32-41

Op(op, arg, n) == [op |-> op, arg |-> arg, n |-> n]

\* with the distribution bit tested in place of the encryption bit
Encrypted_Bit2(Raw) == (Raw \div 4) % 2 # 0

\* fileheader.go:29-30, part_002:99-101
Compressed(Raw) == Raw % 2 # 0
Encrypted(Raw) == (Raw \div 2) % 2 # 0
IsDistributionDoc(Raw) == (Raw \div 4) % 2 # 0

errNotFound == [wrap |-> "stream not found", cause |-> "new"]
errEncrypted == [wrap |-> "password encrypted documents are not supported", cause |-> "new"]
errSignature == [wrap |-> "unexpected signature", cause |-> "new"]
errInvalidDist == [wrap |-> "invalid distribution document stream", cause |-> "new"]

\* readFileHeader (fileheader.go:43-82) of a stream of h.len bytes
readFileHeader(h) ==
    LET short(from, to) == IF h.len <= from THEN ioEOF ELSE
                           IF h.len < to THEN ioErrUnexpectedEOF ELSE NoErr
        fail(msg, e) == [err |-> Errorf(msg, e), Raw |-> 0]
    IN  IF short(0, 32) # NoErr THEN fail("read signature", short(0, 32))
        ELSE IF h.signature # signatureText THEN [err |-> errSignature, Raw |-> 0]
        ELSE IF short(32, 36) # NoErr THEN fail("read version", short(32, 36))
        ELSE IF short(36, 40) # NoErr THEN fail("read properties", short(36, 40))
        ELSE IF short(40, 44) # NoErr THEN fail("read second properties", short(40, 44))
        ELSE IF short(44, 48) # NoErr THEN fail("read encrypt version", short(44, 48))
        ELSE IF short(48, 49) # NoErr THEN fail("read kogl", short(48, 49))
        ELSE IF short(49, fileHeaderSize) # NoErr
             THEN fail("read reserved", short(49, fileHeaderSize))
        ELSE [err |-> NoErr, Raw |-> h.Raw]

\* the loop of part_002:51-66 from position pos of the DocInfo records, and
\* its body, given what ScanNext returned
RECURSIVE scanDocInfo(_, _)
docInfoRec(stream, r) ==
    IF r.err # NoErr
    THEN IF isEOF(r.err)
         THEN [err |-> NoErr, sectionCount |-> 0]
         ELSE [err |-> Errorf("failed to scan DocInfo", r.err), sectionCount |-> 0]
    ELSE IF r.rec.TagID = HWPTAG_DOCUMENT_PROPERTIES
         THEN [err |-> NoErr,
               sectionCount |-> IF r.rec.type = "RecUnknown" /\ Len(r.rec.Data) >= 2
                                THEN LEUint16(r.rec.Data)
                                ELSE 0]
         ELSE scanDocInfo(stream, r.pos)

scanDocInfo(stream, pos) == docInfoRec(stream, ScanNext(stream, pos))

\* OpenReader (part_002:22-73)
OpenReader(doc) ==
    LET log1 == <<Op("open", "FileHeader", 0)>>
        log2 == Append(log1, Op("open", "DocInfo", 0))
        fail(e, log) == [ok |-> FALSE, err |-> e, Raw |-> 0, sectionCount |-> 0, log |-> log]
    IN  IF ~doc.fileHeader.found
        THEN fail(Errorf("failed to open FileHeader", errNotFound), log1)
        ELSE
        LET h == readFileHeader(doc.fileHeader)
        IN  IF h.err # NoErr THEN fail(Errorf("failed to read FileHeader", h.err), log1)
            ELSE IF Encrypted(h.Raw) THEN fail(errEncrypted, log1)
            ELSE IF ~doc.docInfo.found
                 THEN fail(Errorf("failed to open DocInfo", errNotFound), log2)
            ELSE
            LET d == scanDocInfo(doc.docInfo.bytes, 0)
            IN  IF d.err # NoErr THEN fail(d.err, log2)
                ELSE [ok |-> TRUE, err |-> NoErr, Raw |-> h.Raw,
                      sectionCount |-> IF d.sectionCount = 0 THEN 1 ELSE d.sectionCount,
                      log |-> log2]

\* io.ReadFull of k bytes where left bytes are to come, pos having been
\* read: the position reached and the error
ReadCount(left, pos, k) ==
    IF left >= k THEN [pos |-> pos + k, err |-> NoErr]
    ELSE [pos |-> pos + left, err |-> IF left = 0 THEN ioEOF ELSE ioErrUnexpectedEOF]

\* with the size of the header left unchecked
distHeaderOK_TagOnly(tagID, size) == tagID = HWPTAG_DISTRIBUTE_DOC_DATA

\* part_002:135
distHeaderOK(tagID, size) == tagID = HWPTAG_DISTRIBUTE_DOC_DATA /\ size = distDataSize

\* Reader.OpenSection (part_002:110-162): ops are the steps taken, read the
\* number of bytes taken from the stream, decrypt and inflate the readers
\* set over it
OpenSection(doc, Raw, index) ==
    LET storage == IF IsDistributionDoc(Raw) THEN "ViewText" ELSE "BodyText"
        ops1 == <<Op("open", storage, index)>>
        found == index < Len(doc.sections) /\ doc.sections[index + 1].storage = storage
        res(ok, e, ops, read, decrypt) ==
            [index |-> index, ok |-> ok, err |-> e, ops |-> ops, read |-> read,
             decrypt |-> decrypt, inflate |-> ok /\ Compressed(Raw)]
    IN  IF ~found THEN res(FALSE, errNotFound, ops1, 0, FALSE)
        ELSE IF ~IsDistributionDoc(Raw) THEN res(TRUE, NoErr, ops1, 0, FALSE)
        ELSE
        LET sec == doc.sections[index + 1]
            h == ReadFull(sec.hdr, 0, 4)
            ops2 == Append(ops1, Op("read", "header", 4))
        IN  IF h.err # NoErr
            THEN res(FALSE, Errorf("failed to read distribute doc header", h.err),
                     ops2, h.pos, FALSE)
            ELSE
            LET tagVal == LEUint32(h.data)
                tagID == tagVal % 1024
                size == tagVal \div 1048576
            IN  IF distHeaderOK(tagID, size)
                THEN LET d == ReadCount(sec.rest, h.pos, distDataSize)
                         ops3 == Append(ops2, Op("read", "distData", distDataSize))
                     IN  IF d.err # NoErr
                         THEN res(FALSE, Errorf("failed to read distribute doc data", d.err),
                                  ops3, d.pos, FALSE)
                         ELSE res(TRUE, NoErr,
                                  ops3 \o <<Op("deriveKey", "", 0), Op("NewCipher", "", 0)>>,
                                  d.pos, TRUE)
                ELSE res(FALSE, errInvalidDist, ops2, h.pos, FALSE)

NoSec ==
    [index |-> -1, ok |-> FALSE, err |-> NoErr, ops |-> <<>>, read |-> 0,
     decrypt |-> FALSE, inflate |-> FALSE]

\* Open (content_scanner.go:41-57) once OpenReader has returned r: the
\* scanner is made and advanceSection opens the first section
newScanner(doc, r, s) ==
    [doc |-> doc, Raw |-> r.Raw, sectionCount |-> r.sectionCount,
     currentSection |-> 0, log |-> r.log \o s.ops, sec |-> s,
     phase |-> IF s.ok THEN "open" ELSE "failed", scanner |-> s.ok,
     err |-> IF s.ok THEN NoErr ELSE Errorf("failed to open section", s.err)]

openWith(doc, r) ==
    IF ~r.ok
    THEN [doc |-> doc, Raw |-> r.Raw, sectionCount |-> r.sectionCount,
          currentSection |-> -1, log |-> r.log, sec |-> NoSec,
          phase |-> "failed", scanner |-> FALSE,
          err |-> Errorf("failed to open HWP reader", r.err)]
    ELSE newScanner(doc, r, OpenSection(doc, r.Raw, 0))

Open(doc) == openWith(doc, OpenReader(doc))

FileHeaderChoices ==
    {[found |-> TRUE, len |-> fileHeaderSize, signature |-> signatureText, Raw |-> raw] :
        raw \in 0..MaxPropsRaw}
    \cup {[found |-> FALSE, len |-> 0, signature |-> "", Raw |-> 2],
          [found |-> TRUE, len |-> fileHeaderSize, signature |-> "HWP", Raw |-> 2],
          [found |-> TRUE, len |-> 38, signature |-> signatureText, Raw |-> 2]}

DocProps(payload) == [tag |-> HWPTAG_DOCUMENT_PROPERTIES, lvl |-> 0, payload |-> payload]

DocInfoChoices ==
    {[found |-> FALSE, bytes |-> <<>>],
     [found |-> TRUE, bytes |-> <<>>],
     [found |-> TRUE, bytes |-> Encode(DocProps(<<2, 0, 1, 0>>))],
     [found |-> TRUE, bytes |-> Encode(DocProps(<<2>>))],
     [found |-> TRUE,
      bytes |-> Encode([tag |-> HWPTAG_DOCUMENT_PROPERTIES + 1, lvl |-> 0,
                        payload |-> <<7, 7>>])
                \o Encode(DocProps(<<1, 0>>))],
     [found |-> TRUE, bytes |-> SubSeq(Encode(DocProps(<<2, 0>>)), 1, 5)]}

SectionChoices ==
    {[storage |-> "ViewText", rest |-> distDataSize + 16,
      hdr |-> EncodeHeader(HWPTAG_DISTRIBUTE_DOC_DATA, 0, distDataSize)],
     [storage |-> "ViewText", rest |-> distDataSize,
      hdr |-> EncodeHeader(HWPTAG_DISTRIBUTE_DOC_DATA, 1023, distDataSize)],
     [storage |-> "ViewText", rest |-> distDataSize + 16,
      hdr |-> EncodeHeader(HWPTAG_DISTRIBUTE_DOC_DATA - 1, 0, distDataSize)],
     [storage |-> "ViewText", rest |-> distDataSize + 16,
      hdr |-> EncodeHeader(HWPTAG_DISTRIBUTE_DOC_DATA, 0, distDataSize - 1)],
     [storage |-> "ViewText", rest |-> distDataSize + 16,
      hdr |-> EncodeHeader(HWPTAG_DISTRIBUTE_DOC_DATA, 0, distDataSize + 1)],
     [storage |-> "ViewText", rest |-> distDataSize - 1,
      hdr |-> EncodeHeader(HWPTAG_DISTRIBUTE_DOC_DATA, 0, distDataSize)],
     [storage |-> "ViewText", rest |-> 0,
      hdr |-> SubSeq(EncodeHeader(HWPTAG_DISTRIBUTE_DOC_DATA, 0, distDataSize), 1, 3)],
     [storage |-> "BodyText", rest |-> 10,
      hdr |-> EncodeHeader(recTagParaHeader, 0, 10)]}

OpenInit ==
    /\ \E fh \in FileHeaderChoices, di \in DocInfoChoices :
       \E secs \in UNION {[1..k -> SectionChoices] : k \in 1..MaxDocSections} :
          rd = [doc |-> [fileHeader |-> fh, docInfo |-> di, sections |-> secs],
                phase |-> "new", scanner |-> FALSE, err |-> NoErr, Raw |-> 0,
                sectionCount |-> 0, currentSection |-> -1, log |-> <<>>, sec |-> NoSec]
    /\ cs = Idle /\ env = Idle /\ pc = Idle /\ frame = Idle /\ ret = Idle
    /\ hist = Idle /\ rs = Idle /\ cr = Idle
    /\ tb = Idle /\ rt = Idle /\ dk = Idle /\ pd = Idle

\* hwpv5.Open is called on the document
OpenDoc ==
    /\ rd.phase = "new"
    /\ rd' = Open(rd.doc)
    /\ UNCHANGED <<cs, env, pc, frame, ret, hist, rs, cr, tb, rt, dk, pd>>

\* advanceSection (content_scanner.go:66-78) with what OpenSection returned
advanced(r, s) ==
    [r EXCEPT !.currentSection = @ + 1,
              !.log = @ \o s.ops,
              !.sec = s,
              !.phase = IF s.ok THEN "open" ELSE "stopped",
              !.err = IF s.ok THEN NoErr ELSE Errorf("failed to open section", s.err)]

\* the scanner, at the end of a section that is not the last, opens the next
\* (content_scanner.go:66-78); when that fails its scanner is gone
NextSection ==
    /\ rd.phase = "open"
    /\ rd.currentSection + 1 < rd.sectionCount
    /\ rd' = advanced(rd, OpenSection(rd.doc, rd.Raw, rd.currentSection + 1))
    /\ UNCHANGED <<cs, env, pc, frame, ret, hist, rs, cr, tb, rt, dk, pd>>

OpenStep == OpenDoc \/ NextSection

SpecOpen == OpenInit /\ [][OpenStep]_vars

\* the FileHeader stream is whole, signed, and has bit 1 of its properties set
UserEncrypted ==
    /\ rd.doc.fileHeader.found
    /\ rd.doc.fileHeader.len = fileHeaderSize
    /\ rd.doc.fileHeader.signature = signatureText
    /\ rd.doc.fileHeader.Raw \in {raw \in 0..MaxPropsRaw : \E k \in {2, 3} : raw % 4 = k}

\* C4: a document whose FileHeader properties have bit 1 set, whatever the
\* other bits, is refused by Open with an error when only the FileHeader
\* stream has been opened: DocInfo and the sections are not, and no scanner
\* is returned.
C4_EncryptedRejected ==
    (UserEncrypted /\ rd.phase # "new") =>
        /\ rd.phase = "failed"
        /\ ~rd.scanner
        /\ rd.err = Errorf("failed to open HWP reader", errEncrypted)
        /\ rd.log = <<Op("open", "FileHeader", 0)>>
        /\ rd.sec = NoSec

\* a compressed distribution document with bit 1 set was refused
C4_Witness ==
    /\ UserEncrypted
    /\ rd.doc.fileHeader.Raw = 7
    /\ rd.doc.docInfo.found
    /\ rd.phase = "failed"

\* the section stream the last OpenSection was about, and the tag and size
\* its header holds in its low 10 and top 12 bits
LastSection == rd.doc.sections[rd.sec.index + 1]
HdrTag(hdr) == hdr[1] + 256 * (hdr[2] % 4)
HdrSize(hdr) == (hdr[3] \div 16) + 16 * hdr[4]

DistSectionRead ==
    /\ rd.sec.index >= 0
    /\ rd.sec.index < Len(rd.doc.sections)
    /\ rd.doc.fileHeader.Raw \in {raw \in 0..MaxPropsRaw : (raw \div 4) % 2 = 1}
    /\ LastSection.storage = "ViewText"
    /\ Len(LastSection.hdr) = 4

\* C8: OpenSection on a section of a distribution document whose 4-byte
\* header has another tag than 0x1C or another size than 256 returns an
\* error having read these 4 bytes and no more, with no key derived and no
\* cipher made; with that tag and that size it goes on to read 256 bytes.
C8_DistHeaderChecked ==
    DistSectionRead =>
        IF HdrTag(LastSection.hdr) = 28 /\ HdrSize(LastSection.hdr) = 256
        THEN /\ Len(rd.sec.ops) >= 3
             /\ rd.sec.ops[3] = Op("read", "distData", 256)
        ELSE /\ ~rd.sec.ok
             /\ rd.sec.err = errInvalidDist
             /\ rd.sec.read = 4
             /\ ~rd.sec.decrypt
             /\ rd.sec.ops = <<Op("open", "ViewText", rd.sec.index), Op("read", "header", 4)>>

\* the second section of a distribution document, the first having been
\* opened and deciphered, has the tag but a size of 255, and is refused
C8_Witness ==
    /\ DistSectionRead
    /\ rd.sec.index = 1
    /\ HdrTag(LastSection.hdr) = 28
    /\ HdrSize(LastSection.hdr) = 255
    /\ rd.sec.err = errInvalidDist
    /\ rd.phase = "stopped"

(***************************************************************************)
(* Records without a transition.                                           *)
(***************************************************************************)

\* records whose tags ScanNext has no case for: below, between and above
\* the tags of record.go:11-41
OpaqueInputs ==
    {[tag |-> t, lvl |-> l, payload |-> Payload(n, t % 7)] :
        t \in {0, recTagBegin, recTagEqEdit + 1, recTagShapeComponentUnknown + 1, 1023},
        l \in {0, 1023},
        n \in {0, 1, 9, extendedSizeMark}}

\* ScanNext returns each of them as a RecUnknown with its tag, level, size
\* and payload
OpaqueKept ==
    \A r \in OpaqueInputs :
        LET x == ScanNext(Encode(r), 0)
        IN  /\ x.err = NoErr
            /\ x.rec.type = "RecUnknown"
            /\ x.rec.TagID = r.tag
            /\ x.rec.Level = r.lvl
            /\ x.rec.Size = Len(r.payload)
            /\ x.rec.Data = r.payload

\* the record types the switch of Next has no case for
NoCaseTypes == {"RecUnknown", "RecPageDef"}

\* C11: ScanNext returns a record of an unrecognized tag as a RecUnknown with
\* its tag, level, size and payload and no error; and when Next reads a
\* record its switch has no case for, and the record does not end a table in
\* progress, Next goes round its loop with the paragraph builder, the table
\* builder and its cells, and the rest of the scanner as they were, returning
\* no node.
C11_OpaqueRecords ==
    /\ OpaqueKept
    /\ InNext =>
          \A o \in nextRecord(cs, env) :
              (/\ o.res.kind = "rec"
               /\ o.res.rec.type \in NoCaseTypes
               /\ ~(TableInProgress /\ o.res.rec.lvl <= cs.currentTable.tableLevel)) =>
                  LET s == nextBody(o.cs, o.res)
                  IN  /\ s.to = "loop"
                      /\ s.ret = NoNode
                      /\ s.cs = o.cs
                      /\ s.cs.currentPara = cs.currentPara
                      /\ s.cs.currentTable = cs.currentTable

\* a RecUnknown arrives, and is passed over, while a paragraph with text is
\* being built inside a cell of a table
C11_Witness ==
    /\ InNext
    /\ TableInProgress
    /\ Len(cs.currentTable.cells) >= 1
    /\ ~cs.currentPara.nil
    /\ Len(cs.currentPara.textParts) >= 1
    /\ \E o \in nextRecord(cs, env) :
          /\ o.res.kind = "rec"
          /\ o.res.rec.type = "RecUnknown"
          /\ o.res.rec.lvl > cs.currentTable.tableLevel
          /\ nextBody(o.cs, o.res).to = "loop"
          /\ nextBody(o.cs, o.res).cs.currentPara = cs.currentPara

(***************************************************************************)
(* The table renderer (internal/render/table.go).  A string is a sequence  *)
(* of one-character strings; "W" stands for a character of display width   *)
(* 2 and "z" for one of display width 0.  Slices are functions over        *)
(* 0..n-1, a *Cell is the cell's position in Table.Cells (0 is nil).        *)
(***************************************************************************)
MaxArea == 6

\* runewidth.RuneWidth, on the characters of the model
charWidth(ch) == CASE ch = "W" -> 2
                   [] ch \in {"z", "\n", "\t"} -> 0
                   [] OTHER -> 1

RECURSIVE displayWidth(_)
\* displayWidth (table.go:299-301)
displayWidth(s) == IF s = <<>> THEN 0 ELSE charWidth(Head(s)) + displayWidth(Tail(s))

\* the position of the n-th separator of s (0 before the first one, one past
\* the end of s after the last one)
sepAt(s, sep, n) ==
    LET seps == {k \in 1 .. Len(s) : s[k] = sep}
    IN  IF n = 0 THEN 0
        ELSE IF n > Cardinality(seps) THEN Len(s) + 1
        ELSE CHOOSE k \in seps : Cardinality({m \in seps : m <= k}) = n

RECURSIVE lineEnd(_, _)
\* the position of the first newline of s at or after position k, or one past
\* the end of s
lineEnd(s, k) == IF k > Len(s) \/ s[k] = "\n" THEN k ELSE lineEnd(s, k + 1)

RECURSIVE splitAt(_, _, _)
splitAt(s, from, to) ==
    IF to > Len(s) THEN <<SubSeq(s, from, Len(s))>>
    ELSE <<SubSeq(s, from, to - 1)>> \o splitAt(s, to + 1, lineEnd(s, to + 1))

\* strings.Split(s, "\n"): the pieces between the newlines, one more than
\* there are newlines
Split(s) == splitAt(s, 1, lineEnd(s, 1))

RECURSIVE Repeat(_, _)
\* strings.Repeat
Repeat(ch, n) == IF n <= 0 THEN <<>> ELSE <<ch>> \o Repeat(ch, n - 1)

RenderCell(row, col, text, rowSpan, colSpan) ==
    [Row |-> row, Col |-> col, Text |-> text, RowSpan |-> rowSpan, ColSpan |-> colSpan]

RenderTable(rows, cols, cells) == [Rows |-> rows, Cols |-> cols, Cells |-> cells]

\* the ownership grid (table.go:43-59): a later cell overwrites an earlier one,
\* and both span loops stop at the edge of the grid
cellOwnerOf(t) ==
    [r \in 0 .. t.Rows - 1 |-> [c \in 0 .. t.Cols - 1 |->
        LET covering == {i \in 1 .. Len(t.Cells) :
                /\ t.Cells[i].Row <= r /\ r < t.Cells[i].Row + t.Cells[i].RowSpan
                /\ t.Cells[i].Col <= c /\ c < t.Cells[i].Col + t.Cells[i].ColSpan}
        IN  IF covering = {} THEN 0
            ELSE CHOOSE i \in covering : \A j \in covering : j <= i]]

\* table.go:61-64
cellLinesOf(t) == [i \in 1 .. Len(t.Cells) |-> Split(t.Cells[i].Text)]

RECURSIVE maxLineWidth(_)
\* table.go:81-87 and 98-104
maxLineWidth(lines) ==
    IF lines = <<>> THEN 0
    ELSE LET w == displayWidth(Head(lines))
             m == maxLineWidth(Tail(lines))
         IN  IF w > m THEN w ELSE m

\* a step of the layout: the widths after it, or a run-time panic
\* (index out of range)
Widths(cw) == [panic |-> FALSE, colWidths |-> cw]
PanicAt(cw) == [panic |-> TRUE, colWidths |-> cw]

\* one iteration of the first loop of computeColWidths (table.go:78-92)
singleCell(t, cw, cell, maxWidth) ==
    IF cell.ColSpan # 1 THEN Widths(cw)
    ELSE IF cell.Col \notin DOMAIN cw THEN PanicAt(cw)
    ELSE IF maxWidth > cw[cell.Col] THEN Widths([cw EXCEPT ![cell.Col] = maxWidth])
    ELSE Widths(cw)

RECURSIVE sumWidths(_, _, _)
\* table.go:106-109 and 247-250
sumWidths(cw, col, n) == IF n <= 0 THEN 0 ELSE sumWidths(cw, col, n - 1) + cw[col + n - 1]

spanCell_NoRemainder(t, cw, cell, maxWidth) ==
    IF cell.ColSpan <= 1 THEN Widths(cw)
    ELSE IF \E c \in 0 .. cell.ColSpan - 1 : cell.Col + c \notin DOMAIN cw THEN PanicAt(cw)
    ELSE LET extra == maxWidth - sumWidths(cw, cell.Col, cell.ColSpan)
         IN  IF extra > 0
             THEN Widths([c \in DOMAIN cw |->
                     IF cell.Col <= c /\ c < cell.Col + cell.ColSpan
                     THEN cw[c] + extra \div cell.ColSpan
                     ELSE cw[c]])
             ELSE Widths(cw)

\* one iteration of the second loop of computeColWidths (table.go:95-124):
\* the loop over the spanned columns at 107-109 does not stop at the edge of
\* the grid
spanCell(t, cw, cell, maxWidth) ==
    IF cell.ColSpan <= 1 THEN Widths(cw)
    ELSE IF \E c \in 0 .. cell.ColSpan - 1 : cell.Col + c \notin DOMAIN cw THEN PanicAt(cw)
    ELSE LET extra == maxWidth - sumWidths(cw, cell.Col, cell.ColSpan)
         IN  IF extra > 0
             THEN Widths([c \in DOMAIN cw |->
                     IF cell.Col <= c /\ c < cell.Col + cell.ColSpan
                     THEN cw[c] + extra \div cell.ColSpan
                          + (IF c - cell.Col < extra % cell.ColSpan THEN 1 ELSE 0)
                     ELSE cw[c]])
             ELSE Widths(cw)

RECURSIVE singleLoop(_, _, _, _)
\* the first loop of computeColWidths, from cell i on (table.go:78-92)
singleLoop(t, lines, w, i) ==
    IF w.panic \/ i > Len(t.Cells) THEN w
    ELSE singleLoop(t, lines,
             singleCell(t, w.colWidths, t.Cells[i], maxLineWidth(lines[i])), i + 1)

RECURSIVE spanLoop(_, _, _, _)
\* the second loop of computeColWidths, from cell i on (table.go:95-124)
spanLoop(t, lines, w, i) ==
    IF w.panic \/ i > Len(t.Cells) THEN w
    ELSE spanLoop(t, lines,
             spanCell(t, w.colWidths, t.Cells[i], maxLineWidth(lines[i])), i + 1)

\* table.go:73-75
initialWidths(t) == [c \in 0 .. t.Cols - 1 |-> 1]

\* computeColWidths (table.go:72-125)
computeColWidths(t, lines) ==
    spanLoop(t, lines, singleLoop(t, lines, Widths(initialWidths(t)), 1), 1)

rowHeights_AllCells(t, lines) ==
    [row \in 0 .. t.Rows - 1 |->
        LET counts == {Len(lines[i]) : i \in {j \in 1 .. Len(t.Cells) :
                          t.Cells[j].Row <= row
                          /\ row < t.Cells[j].Row + t.Cells[j].RowSpan}} \cup {1}
        IN  CHOOSE n \in counts : \A m \in counts : m <= n]

\* computeRowHeights (table.go:127-142)
computeRowHeights(t, lines) ==
    [row \in 0 .. t.Rows - 1 |->
        LET counts == {Len(lines[i]) : i \in {j \in 1 .. Len(t.Cells) :
                          t.Cells[j].Row = row}} \cup {1}
        IN  CHOOSE n \in counts : \A m \in counts : m <= n]

\* the Layout struct (table.go:25-32)
Layout(t, owner, lines, cw, rh) ==
    [table |-> t, cellOwner |-> owner, cellLines |-> lines, colWidths |-> cw,
     rowHeights |-> rh]

needsHorizontalLine_Always(l, rowIdx, colIdx) == TRUE

\* needsHorizontalLine (table.go:195-208)
needsHorizontalLine(l, rowIdx, colIdx) ==
    IF rowIdx = -1 THEN TRUE
    ELSE IF rowIdx = l.table.Rows - 1 THEN TRUE
    ELSE l.cellOwner[rowIdx][colIdx] # l.cellOwner[rowIdx + 1][colIdx]

needsVerticalLine_AboveOnly(l, rowIdx, colIdx) ==
    IF rowIdx = -1 THEN TRUE
    ELSE IF rowIdx = l.table.Rows - 1 THEN TRUE
    ELSE l.cellOwner[rowIdx][colIdx] # l.cellOwner[rowIdx][colIdx + 1]

\* needsVerticalLine (table.go:210-225)
needsVerticalLine(l, rowIdx, colIdx) ==
    IF rowIdx = -1 THEN TRUE
    ELSE IF rowIdx = l.table.Rows - 1 THEN TRUE
    ELSE \/ l.cellOwner[rowIdx][colIdx] # l.cellOwner[rowIdx][colIdx + 1]
         \/ l.cellOwner[rowIdx + 1][colIdx] # l.cellOwner[rowIdx + 1][colIdx + 1]

RECURSIVE borderFrom(_, _, _)
\* the loop of renderBorderLine (table.go:172-188)
borderFrom(l, rowIdx, colIdx) ==
    IF colIdx >= l.table.Cols THEN <<>>
    ELSE Repeat(IF needsHorizontalLine(l, rowIdx, colIdx) THEN "-" ELSE " ",
                l.colWidths[colIdx] + 2)
         \o (IF colIdx < l.table.Cols - 1
             THEN (IF needsVerticalLine(l, rowIdx, colIdx) THEN <<"+">> ELSE <<"-">>)
             ELSE <<>>)
         \o borderFrom(l, rowIdx, colIdx + 1)

\* renderBorderLine (table.go:167-193)
renderBorderLine(l, rowIdx) == <<"+">> \o borderFrom(l, rowIdx, 0) \o <<"+">>

\* what a rendering function hands back: its string, or a run-time panic
Str(s) == [panic |-> FALSE, s |-> s]
PanicStr == [panic |-> TRUE, s |-> <<>>]

\* the text of a cell on a display row (table.go:255-266)
cellText(owner, lines, rowIdx, displayRowIdx) ==
    IF owner.Row = rowIdx
    THEN (IF displayRowIdx < Len(lines) THEN lines[displayRowIdx + 1] ELSE <<>>)
    ELSE <<>>

contentField_NoSeparators(l, owner, text, colIdx) ==
    LET colspan == owner.ColSpan
        padding == sumWidths(l.colWidths, colIdx, colspan) - displayWidth(text)
    IN  <<" ">> \o text \o Repeat(" ", padding) \o <<" ">>
        \o (IF colIdx + colspan < l.table.Cols THEN <<"|">> ELSE <<>>)

\* one field of a content line (table.go:246-281)
contentField(l, owner, text, colIdx) ==
    LET colspan == owner.ColSpan
        totalContentWidth == sumWidths(l.colWidths, colIdx, colspan)
                             + (IF colspan > 1 THEN (colspan - 1) * 3 ELSE 0)
        padding == totalContentWidth - displayWidth(text)
    IN  <<" ">> \o text \o Repeat(" ", padding) \o <<" ">>
        \o (IF colIdx + colspan < l.table.Cols THEN <<"|">> ELSE <<>>)

RECURSIVE contentFrom(_, _, _, _)
\* the loop of renderContentLine (table.go:236-284)
contentFrom(l, rowIdx, displayRowIdx, colIdx) ==
    IF colIdx >= l.table.Cols THEN Str(<<>>)
    ELSE LET o == l.cellOwner[rowIdx][colIdx]
         IN  IF o = 0 \/ l.table.Cells[o].Col # colIdx
             THEN contentFrom(l, rowIdx, displayRowIdx, colIdx + 1)
             ELSE IF colIdx + l.table.Cells[o].ColSpan > l.table.Cols THEN PanicStr
             ELSE LET rest == contentFrom(l, rowIdx, displayRowIdx,
                                          colIdx + l.table.Cells[o].ColSpan)
                  IN  IF rest.panic THEN PanicStr
                      ELSE Str(contentField(l, l.table.Cells[o],
                                   cellText(l.table.Cells[o], l.cellLines[o],
                                            rowIdx, displayRowIdx), colIdx)
                               \o rest.s)

\* renderContentLine (table.go:230-289)
renderContentLine(l, rowIdx, displayRowIdx) ==
    LET body == contentFrom(l, rowIdx, displayRowIdx, 0)
    IN  IF body.panic THEN PanicStr ELSE Str(<<"|">> \o body.s \o <<"|">>)

RECURSIVE renderRowFrom(_, _, _)
\* the inner loop of render (table.go:153-156)
renderRowFrom(l, rowIdx, displayRowIdx) ==
    IF displayRowIdx >= l.rowHeights[rowIdx] THEN Str(<<>>)
    ELSE LET line == renderContentLine(l, rowIdx, displayRowIdx)
         IN  IF line.panic THEN PanicStr
             ELSE LET rest == renderRowFrom(l, rowIdx, displayRowIdx + 1)
                  IN  IF rest.panic THEN PanicStr
                      ELSE Str(line.s \o <<"\n">> \o rest.s)

RECURSIVE renderFrom(_, _)
\* the outer loop of render (table.go:150-160)
renderFrom(l, rowIdx) ==
    IF rowIdx >= l.table.Rows THEN Str(<<>>)
    ELSE LET content == renderRowFrom(l, rowIdx, 0)
         IN  IF content.panic THEN PanicStr
             ELSE LET rest == renderFrom(l, rowIdx + 1)
                  IN  IF rest.panic THEN PanicStr
                      ELSE Str(content.s \o renderBorderLine(l, rowIdx) \o <<"\n">>
                               \o rest.s)

\* Layout.render (table.go:144-163)
render(l) ==
    LET rows == renderFrom(l, 0)
    IN  IF rows.panic THEN PanicStr
        ELSE Str(renderBorderLine(l, -1) \o <<"\n">> \o rows.s)

\* the layout of a table whose column widths are w (table.go:40-70)
layoutWith(t, lines, w) ==
    Layout(t, cellOwnerOf(t), lines, w.colWidths, computeRowHeights(t, lines))

renderWith(t, lines, w) == IF w.panic THEN PanicStr ELSE render(layoutWith(t, lines, w))

renderLines(t, lines) == renderWith(t, lines, computeColWidths(t, lines))

\* Table.Render (table.go:35-38)
Render(t) == renderLines(t, cellLinesOf(t))

(***************************************************************************)
(* SpecRender: Render runs on a table drawn from the exact tilings of the  *)
(* grids of up to MaxArea positions, from those with a cell missing,       *)
(* from those with the spans at the bottom or right edge reaching over     *)
(* the edge, and from the grids without rows or columns.                   *)
(***************************************************************************)
TextChoices ==
    << <<>>,
       <<"a">>,
       <<"W", "z", "a">>,
       <<"a", "\n", "W", "W">>,
       <<"a", "a", "a", "a", "a", "a", "a">>,
       <<"a", "\n", "\n", "z">> >>

\* the grid positions a cell spans, the edge of the grid disregarded
Spanned(cell) ==
    {<<r, c>> : r \in cell.Row .. cell.Row + cell.RowSpan - 1,
                c \in cell.Col .. cell.Col + cell.ColSpan - 1}

RECURSIVE Tilings(_, _, _)
\* the sets of cells that cover the free positions exactly
Tilings(rows, cols, free) ==
    IF free = {} THEN {{}}
    ELSE LET p == CHOOSE q \in free :
                      \A q2 \in free : q[1] * cols + q[2] <= q2[1] * cols + q2[2]
             fits == {rc \in {RenderCell(p[1], p[2], <<>>, h, w) :
                                 h \in 1 .. rows - p[1], w \in 1 .. cols - p[2]} :
                         Spanned(rc) \subseteq free}
         IN  UNION {{{rc} \cup rest : rest \in Tilings(rows, cols, free \ Spanned(rc))} :
                       rc \in fits}

RECURSIVE InOrder(_, _, _)
\* the cells of a set in reading order, or in the reverse of it
InOrder(cells, cols, reverse) ==
    IF cells = {} THEN <<>>
    ELSE LET first == CHOOSE x \in cells : \A y \in cells :
                          x.Row * cols + x.Col <= y.Row * cols + y.Col
             rest == InOrder(cells \ {first}, cols, reverse)
         IN  IF reverse THEN Append(rest, first) ELSE <<first>> \o rest

WithTexts(cells, seed) ==
    [j \in 1 .. Len(cells) |->
        [cells[j] EXCEPT !.Text = TextChoices[((seed + j - 1) % Len(TextChoices)) + 1]]]

Variants == {"forward", "reverse", "sparse", "rowOver", "colOver"}

\* the cell list of a variant of a tiling: its cells in reading order or in
\* the reverse of it, without its last cell, or with the spans at the bottom
\* or at the right edge one too long
Variant(rows, cols, tiling, seed, v) ==
    LET cells == WithTexts(InOrder(tiling, cols, v = "reverse"), seed)
    IN  CASE v = "sparse" -> SubSeq(cells, 1, Len(cells) - 1)
          [] v = "rowOver" ->
                [j \in 1 .. Len(cells) |->
                    IF cells[j].Row + cells[j].RowSpan = rows
                    THEN [cells[j] EXCEPT !.RowSpan = @ + 1] ELSE cells[j]]
          [] v = "colOver" ->
                [j \in 1 .. Len(cells) |->
                    IF cells[j].Col + cells[j].ColSpan = cols
                    THEN [cells[j] EXCEPT !.ColSpan = @ + 1] ELSE cells[j]]
          [] OTHER -> cells

\* the grids of at most maxArea positions
Grids(maxArea) ==
    {d \in (0 .. maxArea) \X (0 .. maxArea) : d[1] * d[2] <= maxArea}

RenderTableChoices(maxArea) ==
    UNION {{RenderTable(d[1], d[2], Variant(d[1], d[2], tiling, seed, v)) :
              tiling \in Tilings(d[1], d[2], (0 .. d[1] - 1) \X (0 .. d[2] - 1)),
              seed \in 0 .. Len(TextChoices) - 1, v \in Variants} :
           d \in {e \in Grids(maxArea) : e[1] * e[2] > 0}}
    \cup {RenderTable(d[1], d[2], <<>>) :
            d \in {e \in Grids(maxArea) : e[1] * e[2] = 0 /\ e[1] + e[2] <= 2}}

NoWidths == Widths(<<>>)

RenderInit ==
    /\ cs = Idle /\ env = Idle /\ pc = Idle /\ frame = Idle /\ ret = Idle
    /\ hist = Idle /\ rs = Idle /\ cr = Idle /\ rd = Idle
    /\ rt = Idle /\ dk = Idle /\ pd = Idle
    /\ \E t \in RenderTableChoices(MaxArea) :
         tb = [table |-> t, phase |-> "start", lines |-> <<>>, w |-> NoWidths,
               i |-> 0, before |-> <<>>, rowHeights |-> <<>>, out |-> <<>>]

\* buildLayout up to the call of computeColWidths, and the first loop of
\* that (table.go:40-64, 73-75)
LayoutStart ==
    /\ tb.phase = "start"
    /\ tb' = [tb EXCEPT !.phase = "single", !.lines = cellLinesOf(tb.table),
                        !.w = Widths(initialWidths(tb.table))]
    /\ UNCHANGED <<cs, env, pc, frame, ret, hist, rs, cr, rd, rt, dk, pd>>

afterSingle(w) ==
    [tb EXCEPT !.phase = IF w.panic THEN "panic" ELSE "span", !.w = w, !.i = 1]

\* the loop of the single-column cells (table.go:78-92)
SingleColumns ==
    /\ tb.phase = "single"
    /\ tb' = afterSingle(singleLoop(tb.table, tb.lines, tb.w, 1))
    /\ UNCHANGED <<cs, env, pc, frame, ret, hist, rs, cr, rd, rt, dk, pd>>

afterSpan(w) ==
    [tb EXCEPT !.phase = IF w.panic THEN "panic" ELSE "span", !.w = w,
               !.i = @ + 1, !.before = tb.w.colWidths]

\* one iteration of the loop of the multi-column cells (table.go:95-124)
SpanStep ==
    /\ tb.phase = "span"
    /\ tb.i <= Len(tb.table.Cells)
    /\ tb' = afterSpan(spanCell(tb.table, tb.w.colWidths, tb.table.Cells[tb.i],
                                maxLineWidth(tb.lines[tb.i])))
    /\ UNCHANGED <<cs, env, pc, frame, ret, hist, rs, cr, rd, rt, dk, pd>>

\* computeRowHeights (table.go:67, 127-142)
RowHeights ==
    /\ tb.phase = "span"
    /\ tb.i > Len(tb.table.Cells)
    /\ tb' = [tb EXCEPT !.phase = "render",
                        !.rowHeights = computeRowHeights(tb.table, tb.lines)]
    /\ UNCHANGED <<cs, env, pc, frame, ret, hist, rs, cr, rd, rt, dk, pd>>

afterRender(r) ==
    [tb EXCEPT !.phase = IF r.panic THEN "panic" ELSE "done", !.out = r.s]

\* Layout.render (table.go:37, 144-163)
RenderOut ==
    /\ tb.phase = "render"
    /\ tb' = afterRender(render(Layout(tb.table, cellOwnerOf(tb.table), tb.lines,
                                       tb.w.colWidths, tb.rowHeights)))
    /\ UNCHANGED <<cs, env, pc, frame, ret, hist, rs, cr, rd, rt, dk, pd>>

RenderNext == LayoutStart \/ SingleColumns \/ SpanStep \/ RowHeights \/ RenderOut

SpecRender == RenderInit /\ [][RenderNext]_vars

\* the table has cells and they tile the grid exactly: spans at least 1,
\* inside the grid, every grid position in exactly one cell
Tiles(t) ==
    /\ Len(t.Cells) >= 1
    /\ \A i \in 1 .. Len(t.Cells) :
         /\ t.Cells[i].RowSpan >= 1 /\ t.Cells[i].ColSpan >= 1
         /\ t.Cells[i].Row >= 0 /\ t.Cells[i].Row + t.Cells[i].RowSpan <= t.Rows
         /\ t.Cells[i].Col >= 0 /\ t.Cells[i].Col + t.Cells[i].ColSpan <= t.Cols
    /\ \A r \in 0 .. t.Rows - 1, c \in 0 .. t.Cols - 1 :
         Cardinality({i \in 1 .. Len(t.Cells) : <<r, c>> \in Spanned(t.Cells[i])}) = 1

\* the lines of a rendered table, each of which ends in a newline
OutLines(out) == LET pieces == Split(out) IN SubSeq(pieces, 1, Len(pieces) - 1)

RECURSIVE lineWidth(_, _)
\* 1 + the sum over the columns from c on of (width + 3)
lineWidth(cw, c) == IF c \notin DOMAIN cw THEN 1 ELSE cw[c] + 3 + lineWidth(cw, c + 1)

Rendered == tb.phase = "done"

\* C12: for a table whose cells tile the grid exactly, whatever the spans, the
\* number of text lines and the display widths (0, 1, 2) of the characters,
\* every line of the rendered table has the display width
\* 1 + sum over the columns of (column width + 3)
C12_EqualLineWidth ==
    (Rendered /\ Tiles(tb.table)) =>
        LET lines == OutLines(tb.out)
            width == lineWidth(tb.w.colWidths, 0)
        IN  \A k \in 1 .. Len(lines) : displayWidth(lines[k]) = width

C12_Witness ==
    /\ Rendered /\ Tiles(tb.table)
    /\ tb.table.Rows = 2 /\ tb.table.Cols = 3
    /\ \E i \in 1 .. Len(tb.table.Cells) : tb.table.Cells[i].ColSpan > 1
    /\ \E i \in 1 .. Len(tb.table.Cells) : tb.table.Cells[i].RowSpan > 1
    /\ \E i \in 1 .. Len(tb.table.Cells) :
         /\ Len(tb.lines[i]) > 1
         /\ \E k \in 1 .. Len(tb.lines[i]) : displayWidth(tb.lines[i][k]) = 4
    /\ \E i \in 1 .. Len(tb.table.Cells) :
         "z" \in {tb.table.Cells[i].Text[k] : k \in 1 .. Len(tb.table.Cells[i].Text)}
    /\ Len(OutLines(tb.out)) >= 5

\* the number of text lines of a text: one more than it has newlines
TextLineCount(text) == Cardinality({k \in 1 .. Len(text) : text[k] = "\n"}) + 1

\* h_r: the largest number of text lines among the cells that start in row r,
\* and at least 1
DisplayRows(t, r) ==
    LET counts == {TextLineCount(t.Cells[i].Text) :
                      i \in {j \in 1 .. Len(t.Cells) : t.Cells[j].Row = r}} \cup {1}
    IN  CHOOSE n \in counts : \A m \in counts : m <= n

RECURSIVE LineKinds(_, _)
\* the first characters of the lines from row r on: h_r content lines and one
\* border line per row
LineKinds(t, r) ==
    IF r >= t.Rows THEN <<>>
    ELSE [k \in 1 .. DisplayRows(t, r) |-> "|"] \o <<"+">> \o LineKinds(t, r + 1)

SingleLineCells(t) == \A i \in 1 .. Len(t.Cells) : TextLineCount(t.Cells[i].Text) = 1

\* C13: the rendered table ends in a newline and has exactly
\* 1 + sum over the rows of (h_r + 1) lines: the top border, then per row its
\* h_r content lines and one border line; a 2-row table of single-line cells
\* has 5 lines, a 2x2 table with one 3-line cell has 7
C13_LineCount ==
    Rendered =>
        LET lines == OutLines(tb.out)
            kinds == <<"+">> \o LineKinds(tb.table, 0)
        IN  /\ tb.out[Len(tb.out)] = "\n"
            /\ Len(lines) = Len(kinds)
            /\ \A k \in 1 .. Len(lines) : Head(lines[k]) = kinds[k]
            /\ (tb.table.Rows = 2 /\ SingleLineCells(tb.table)) => Len(lines) = 5
            /\ (/\ tb.table.Rows = 2 /\ tb.table.Cols = 2 /\ Len(tb.table.Cells) = 4
                /\ Cardinality({i \in 1 .. 4 :
                       TextLineCount(tb.table.Cells[i].Text) = 3}) = 1
                /\ Cardinality({i \in 1 .. 4 :
                       TextLineCount(tb.table.Cells[i].Text) = 1}) = 3)
                  => Len(lines) = 7

C13_Witness ==
    /\ Rendered /\ Tiles(tb.table)
    /\ tb.table.Rows = 2 /\ tb.table.Cols = 2 /\ Len(tb.table.Cells) = 4
    /\ Cardinality({i \in 1 .. 4 : TextLineCount(tb.table.Cells[i].Text) = 3}) = 1
    /\ Cardinality({i \in 1 .. 4 : TextLineCount(tb.table.Cells[i].Text) = 1}) = 3
    /\ Len(OutLines(tb.out)) = 7

\* W: the largest display width among the text lines of a cell
WidestLine(cell) ==
    LET ws == {displayWidth(Split(cell.Text)[k]) : k \in 1 .. Len(Split(cell.Text))}
    IN  CHOOSE w \in ws : \A v \in ws : v <= w

RECURSIVE SumOver(_, _)
\* the sum of f over the columns cols
SumOver(f, cols) ==
    IF cols = {} THEN 0
    ELSE LET c == CHOOSE x \in cols : TRUE IN f[c] + SumOver(f, cols \ {c})

SpanCols(cell) == cell.Col .. cell.Col + cell.ColSpan - 1

\* the second loop has just dealt with a cell
SpanStepDone == tb.phase = "span" /\ tb.i > 1

LastCell == tb.table.Cells[tb.i - 1]

Extra == WidestLine(LastCell) - SumOver(tb.before, SpanCols(LastCell))

LayoutDone == tb.phase \in {"render", "done"}

\* C14: when the second loop has dealt with a cell of ColSpan k > 1 whose
\* widest line W exceeds the sum S of its columns' widths, each of its columns
\* has grown by (W - S) div k and the leftmost (W - S) mod k of them by one
\* more, so that the sum is W; with W <= S nothing has changed; no width has
\* decreased, and in the finished layout the widths of every cell's columns
\* sum to at least its W
C14_SpanDistribution ==
    /\ (SpanStepDone /\ LastCell.ColSpan > 1) =>
         /\ Extra > 0 =>
              /\ \A c \in DOMAIN tb.before :
                   tb.w.colWidths[c] =
                       IF c \in SpanCols(LastCell)
                       THEN tb.before[c] + (Extra \div LastCell.ColSpan)
                            + (IF c - LastCell.Col < Extra % LastCell.ColSpan THEN 1 ELSE 0)
                       ELSE tb.before[c]
              /\ SumOver(tb.w.colWidths, SpanCols(LastCell)) = WidestLine(LastCell)
         /\ Extra <= 0 => tb.w.colWidths = tb.before
    /\ SpanStepDone => \A c \in DOMAIN tb.before : tb.w.colWidths[c] >= tb.before[c]
    /\ tb.phase = "span" => \A c \in DOMAIN tb.w.colWidths : tb.w.colWidths[c] >= 1
    /\ LayoutDone =>
         \A i \in 1 .. Len(tb.table.Cells) :
             (tb.table.Cells[i].ColSpan >= 1
              /\ SpanCols(tb.table.Cells[i]) \subseteq DOMAIN tb.w.colWidths) =>
                 SumOver(tb.w.colWidths, SpanCols(tb.table.Cells[i]))
                     >= WidestLine(tb.table.Cells[i])

C14_Witness ==
    /\ SpanStepDone /\ LastCell.ColSpan = 3
    /\ Extra \div 3 >= 1 /\ Extra % 3 = 1
    /\ tb.w.colWidths[LastCell.Col] = tb.w.colWidths[LastCell.Col + 1] + 1
    /\ tb.w.colWidths # tb.before

\* the pieces of s between the separators
Pieces(s, sep) ==
    [j \in 1 .. Cardinality({k \in 1 .. Len(s) : s[k] = sep}) + 1 |->
        SubSeq(s, sepAt(s, sep, j - 1) + 1, sepAt(s, sep, j) - 1)]

NotSpace(ch) == ch # " "

RECURSIVE RowsAbove(_, _)
\* the number of output lines above the content lines of row r
RowsAbove(t, r) == IF r <= 0 THEN 1 ELSE RowsAbove(t, r - 1) + DisplayRows(t, r - 1) + 1

\* the content line of display row d of table row r, and the border line
\* below table row r
ContentLineAt(lines, r, d) == lines[RowsAbove(tb.table, r) + d + 1]
BorderLineBelow(lines, r) == lines[RowsAbove(tb.table, r + 1)]

\* the field of cell i on a content line of a row it spans: the piece between
\* the bars, counted by the cells to the left of it in that row
FieldOf(i, r, line) ==
    Pieces(line, "|")[2 + Cardinality({j \in 1 .. Len(tb.table.Cells) :
        /\ tb.table.Cells[j].Row <= r
        /\ r < tb.table.Cells[j].Row + tb.table.Cells[j].RowSpan
        /\ tb.table.Cells[j].Col < tb.table.Cells[i].Col})]

\* the text line of a cell shown on display row d of its starting row
TextLineAt(cell, d) ==
    IF d < Len(Split(cell.Text)) THEN Split(cell.Text)[d + 1] ELSE <<>>

\* the segment of column c on a border line
BorderSegment(line, c) ==
    SubSeq(line, lineWidth(tb.w.colWidths, 0) - lineWidth(tb.w.colWidths, c) + 2,
                 lineWidth(tb.w.colWidths, 0) - lineWidth(tb.w.colWidths, c) + 1
                     + tb.w.colWidths[c] + 2)

\* C15: in a tiled table every cell shows line i of its text on display line
\* i of its starting row; a cell with RowSpan > 1 has a blank field on every
\* display line of the further rows it spans, and on the border lines between
\* the rows of its span the segments of its columns are blank, not dashes
C15_RowSpanDrawnOnce ==
    (Rendered /\ Tiles(tb.table)) =>
        LET lines == OutLines(tb.out) IN
        \A i \in 1 .. Len(tb.table.Cells) :
            LET cell == tb.table.Cells[i] IN
            /\ \A d \in 0 .. DisplayRows(tb.table, cell.Row) - 1 :
                 SelectSeq(FieldOf(i, cell.Row, ContentLineAt(lines, cell.Row, d)), NotSpace)
                     = TextLineAt(cell, d)
            /\ \A r \in cell.Row + 1 .. cell.Row + cell.RowSpan - 1 :
                 /\ \A d \in 0 .. DisplayRows(tb.table, r) - 1 :
                      SelectSeq(FieldOf(i, r, ContentLineAt(lines, r, d)), NotSpace) = <<>>
                 /\ \A c \in SpanCols(cell) :
                      \A k \in 1 .. tb.w.colWidths[c] + 2 :
                          BorderSegment(BorderLineBelow(lines, r - 1), c)[k] = " "
            /\ \A c \in SpanCols(cell) :
                 \A k \in 1 .. tb.w.colWidths[c] + 2 :
                     BorderSegment(BorderLineBelow(lines, cell.Row + cell.RowSpan - 1), c)[k]
                         = "-"

C15_Witness ==
    /\ Rendered /\ Tiles(tb.table)
    /\ \E i, j \in 1 .. Len(tb.table.Cells) :
         /\ tb.table.Cells[i].RowSpan = 2 /\ tb.table.Cells[i].Row = 0
         /\ Len(Split(tb.table.Cells[i].Text)) = 2
         /\ tb.table.Cells[j].Row = 1 /\ tb.table.Cells[j].Text = <<"a">>
         /\ SelectSeq(FieldOf(j, 1, ContentLineAt(OutLines(tb.out), 1, 0)), NotSpace)
                = <<"a">>
         /\ SelectSeq(FieldOf(i, 0, ContentLineAt(OutLines(tb.out), 0, 1)), NotSpace)
                = <<"W", "W">>
         /\ BorderSegment(BorderLineBelow(OutLines(tb.out), 0), tb.table.Cells[i].Col)[1] = " "
         /\ BorderSegment(BorderLineBelow(OutLines(tb.out), 0), tb.table.Cells[j].Col)[1] = "-"

\* a cell's span reaches past the last row or the last column
Overflows(t) ==
    \E i \in 1 .. Len(t.Cells) :
        \/ t.Cells[i].Row + t.Cells[i].RowSpan > t.Rows
        \/ t.Cells[i].Col + t.Cells[i].ColSpan > t.Cols

\* C16: Render completes for a table with a cell whose span reaches past the
\* last row or the last column: every step of the layout and of the rendering
\* stops at the edge of the grid, none indexes outside it
C16_OverflowClipped == Overflows(tb.table) => tb.phase # "panic"

(***************************************************************************)
(* RenderText (internal/render, RenderText / renderParagraph / renderTable *)
(* / renderImage).  The scanner is any document.ContentNodeScanner: here a *)
(* script of nodes and the error that Next returns after them.  The writer *)
(* is the string written so far.                                           *)
(***************************************************************************)
MaxNodes == 3

\* strings.TrimRight(s, "\n")
TrimRight(s) ==
    LET keep == {k \in 1 .. Len(s) : s[k] # "\n"} \cup {0}
    IN  SubSeq(s, 1, CHOOSE k \in keep : \A m \in keep : m <= k)

\* strings.TrimSpace(s), on the characters of the model
TrimSpace(s) ==
    LET keep == {k \in 1 .. Len(s) : s[k] \notin {" ", "\n", "\t"}}
    IN  IF keep = {} THEN <<>>
        ELSE SubSeq(s, CHOOSE k \in keep : \A m \in keep : k <= m,
                       CHOOSE k \in keep : \A m \in keep : m <= k)

\* fmt.Fprintln(w, text) and fmt.Fprintln(w)
Fprintln(text) == text \o <<"\n">>

renderParagraph_KeepNewlines(para) == Str(Fprintln(para.Text))

\* renderParagraph (lines 40-48)
renderParagraph(para) ==
    IF TrimRight(para.Text) # <<>> THEN Str(Fprintln(TrimRight(para.Text)))
    ELSE Str(Fprintln(<<>>))

\* renderTable (lines 50-74)
renderTable(docTable) ==
    IF Len(docTable.Cells) = 0 THEN Str(<<>>)
    ELSE Render(RenderTable(docTable.Rows, docTable.Cols,
             [i \in 1 .. Len(docTable.Cells) |->
                 RenderCell(docTable.Cells[i].Row, docTable.Cells[i].Col,
                            TrimSpace(docTable.Cells[i].Text),
                            docTable.Cells[i].RowSpan, docTable.Cells[i].ColSpan)]))

\* renderImage (lines 76-79)
renderImage == Str(<<"[", "I", "M", "A", "G", "E", "]", "\n">>)

\* the blank line after a table (line 31)
afterTable(r) == IF r.panic THEN r ELSE Str(r.s \o Fprintln(<<>>))

writeNode_Swallow(n) ==
    CASE n.kind = "Paragraph" -> renderParagraph(n)
      [] n.kind = "Table" -> afterTable(renderTable(n))
      [] OTHER -> Str(<<>>)

\* the type switch of RenderText (lines 21-36): what it writes for a node
writeNode(n) ==
    CASE n.kind = "Paragraph" -> renderParagraph(n)
      [] n.kind = "Table" -> afterTable(renderTable(n))
      [] n.kind = "Image" -> renderImage
      [] OTHER -> Str(<<>>)

readErr_Nil(err) == NoErr

\* what RenderText returns when Next returns err (lines 14-19)
readErr(err) == IF err = ioEOF THEN NoErr ELSE Errorf("error reading content", err)

NodeChoices ==
    {ParagraphNode(t) : t \in {<<>>, <<"a", "\n", "\n">>, <<"a", "\n", "W">>, <<"\n", "z">>}}
    \cup {ImageNode}
    \cup {TableNode(0, 0, <<>>), TableNode(0, 2, <<>>), TableNode(2, 0, <<>>),
          TableNode(1, 2, <<RenderCell(0, 0, <<" ", "a", "\n">>, 1, 1),
                            RenderCell(0, 1, <<"W", "\n", "z">>, 1, 1)>>),
          TableNode(2, 2, <<RenderCell(0, 0, <<"a", "\n", "a", "a">>, 2, 1),
                            RenderCell(0, 1, <<>>, 1, 1),
                            RenderCell(1, 1, <<"\t", "W">>, 1, 1)>>)}

EndChoices == {ioEOF, ioErrUnexpectedEOF, Errorf("failed to open section", ioEOF)}

Scripts(maxNodes) == UNION {[1 .. n -> NodeChoices] : n \in 0 .. maxNodes}

TextInit ==
    /\ cs = Idle /\ env = Idle /\ pc = Idle /\ frame = Idle /\ ret = Idle
    /\ hist = Idle /\ rs = Idle /\ cr = Idle /\ rd = Idle
    /\ tb = Idle /\ dk = Idle /\ pd = Idle
    /\ \E script \in Scripts(MaxNodes), end \in EndChoices :
         rt = [script |-> script, end |-> end, k |-> 0, w |-> <<>>,
               chunks |-> <<>>, running |-> TRUE, err |-> NoErr, panic |-> FALSE]

wrote(r) ==
    IF r.panic THEN [rt EXCEPT !.running = FALSE, !.panic = TRUE]
    ELSE [rt EXCEPT !.k = @ + 1, !.w = @ \o r.s, !.chunks = Append(@, r.s)]

\* an iteration of the loop in which Next returns a node (lines 13-36)
WriteNode ==
    /\ rt.running
    /\ rt.k < Len(rt.script)
    /\ rt' = wrote(writeNode(rt.script[rt.k + 1]))
    /\ UNCHANGED <<cs, env, pc, frame, ret, hist, rs, cr, rd, tb, dk, pd>>

returned(e) == [rt EXCEPT !.running = FALSE, !.err = e]

\* the iteration in which Next returns an error (lines 13-19)
ReturnOnErr ==
    /\ rt.running
    /\ rt.k = Len(rt.script)
    /\ rt' = returned(readErr(rt.end))
    /\ UNCHANGED <<cs, env, pc, frame, ret, hist, rs, cr, rd, tb, dk, pd>>

TextNext == WriteNode \/ ReturnOnErr

SpecText == TextInit /\ [][TextNext]_vars

\* a Table node without rows or without columns that has no cells
DroppedTable(n) == n.kind = "Table" /\ (n.Rows = 0 \/ n.Cols = 0) /\ Len(n.Cells) = 0

\* C17: for a table with zero rows or zero columns and no cells RenderText
\* writes nothing at all: no border, no content, no blank line
C17_EmptyTableSilent ==
    \A j \in 1 .. Len(rt.chunks) : DroppedTable(rt.script[j]) => rt.chunks[j] = <<>>

RECURSIVE Concat(_)
\* the strings of a sequence, one after the other
Concat(ss) == IF ss = <<>> THEN <<>> ELSE Head(ss) \o Concat(Tail(ss))

\* chunk is text with all its trailing newlines removed, and one newline
ParagraphLine(chunk, text) ==
    /\ Len(chunk) >= 1 /\ chunk[Len(chunk)] = "\n"
    /\ Len(chunk) - 1 <= Len(text)
    /\ SubSeq(chunk, 1, Len(chunk) - 1) = SubSeq(text, 1, Len(chunk) - 1)
    /\ Len(chunk) >= 2 => chunk[Len(chunk) - 1] # "\n"
    /\ \A k \in Len(chunk) .. Len(text) : text[k] = "\n"

\* the grid of a Table node: that of the table with the white space around
\* each cell's text removed
GridOf(n) ==
    Render(RenderTable(n.Rows, n.Cols,
        [i \in 1 .. Len(n.Cells) |-> [n.Cells[i] EXCEPT !.Text = TrimSpace(@)]])).s

\* what is to be written for a node
WrittenFor(chunk, n) ==
    CASE n.kind = "Paragraph" -> ParagraphLine(chunk, n.Text)
      [] n.kind = "Table" /\ Len(n.Cells) >= 1 -> chunk = GridOf(n) \o <<"\n">>
      [] n.kind = "Image" -> chunk = <<"[", "I", "M", "A", "G", "E", "]", "\n">>
      [] OTHER -> TRUE

C19_ErrorKeepsOutput ==
    /\ [](( ~rt.running /\ rt.end # ioEOF /\ ~rt.panic) =>
            /\ rt.err # NoErr
            /\ rt.err.cause = rt.end.cause
            /\ rt.k = Len(rt.script)
            /\ Len(rt.chunks) = rt.k
            /\ rt.w = Concat(rt.chunks)
            /\ \A j \in 1 .. rt.k : WrittenFor(rt.chunks[j], rt.script[j]))
    /\ [][IsPrefix(rt.w, rt'.w) /\ (~rt.running => rt'.w = rt.w)]_vars

C19_Witness ==
    /\ ~rt.running /\ rt.end = ioErrUnexpectedEOF
    /\ rt.err = Errorf("error reading content", ioErrUnexpectedEOF)
    /\ rt.k = 2 /\ Len(rt.chunks) = 2
    /\ rt.script[1].kind = "Paragraph" /\ rt.script[2].kind = "Table"
    /\ Len(rt.script[2].Cells) = 2
    /\ Len(rt.w) > Len(rt.chunks[1])

(***************************************************************************)
(* deriveKey and msvcRand (internal/hwpv5/crypto.go).  A uint32 is kept as *)
(* its two 16-bit halves, so that no intermediate value leaves the range   *)
(* of the checker's integers.                                              *)
(***************************************************************************)
MaxSeedLow == 17
MaxPattern == 2
MaxCalls == 2

lcgMul == 214013
lcgAdd == 2531011
half == 2 ^ 16
keySize == 16

Uint32(hi, lo) == [hi |-> hi, lo |-> lo]

\* binary.LittleEndian.Uint32(distData[0:4]) (crypto.go:56)
seedOf(distData) ==
    Uint32(distData[3] + 256 * distData[4], distData[1] + 256 * distData[2])

nextState_Add1(st) ==
    LET low == st.lo * (lcgMul % half) + (lcgAdd % half) + 1
    IN  Uint32((st.lo * (lcgMul \div half) + st.hi * (lcgMul % half)
                + low \div half + lcgAdd \div half) % half,
               low % half)

\* r.state*214013 + 2531011 in uint32 arithmetic (crypto.go:97)
nextState(st) ==
    LET low == st.lo * (lcgMul % half) + (lcgAdd % half)
    IN  Uint32((st.lo * (lcgMul \div half) + st.hi * (lcgMul % half)
                + low \div half + lcgAdd \div half) % half,
               low % half)

randValue_NoMask(st) == st.hi

\* (r.state >> 16) & 0x7FFF (crypto.go:98)
randValue(st) == st.hi % 32768

\* the run written for one val and one cnt (crypto.go:65-71)
run(val, cnt, room) ==
    [j \in 1 .. (IF (cnt % 16) + 1 < room THEN (cnt % 16) + 1 ELSE room) |-> val % 256]

RECURSIVE fillFrom(_, _)
\* the loop that fills randomArray (crypto.go:61-72)
fillFrom(st, arr) ==
    IF Len(arr) >= distDataSize THEN arr
    ELSE fillFrom(nextState(nextState(st)),
                  arr \o run(randValue(nextState(st)),
                             randValue(nextState(nextState(st))),
                             distDataSize - Len(arr)))

RECURSIVE fillLog(_, _)
\* the rounds of the loop that fills randomArray (crypto.go:61-72): the two
\* draws of each round, the run length c, and the index i before and after
\* the inner loop
fillLog(st, i) ==
    IF i >= distDataSize THEN <<>>
    ELSE LET val == randValue(nextState(st))
             cnt == randValue(nextState(nextState(st)))
             c == (cnt % 16) + 1
             written == Len(run(val, cnt, distDataSize - i))
         IN  <<[val |-> val, cnt |-> cnt, c |-> c, from |-> i, to |-> i + written]>>
             \o fillLog(nextState(nextState(st)), i + written)

\* int((seed & 0x0F) + 4) (crypto.go:79)
offsetOf(seed) == (seed.lo % 16) + 4

RECURSIVE xorByte(_, _)
\* a ^ b on bytes
xorByte(a, b) ==
    IF a = 0 /\ b = 0 THEN 0
    ELSE ((a + b) % 2) + 2 * xorByte(a \div 2, b \div 2)

errInvalidSize == [wrap |-> "invalid distribution data size", cause |-> "new"]
errInvalidOffset == [wrap |-> "invalid key offset", cause |-> "new"]

KeyResult(key, err) == [key |-> key, err |-> err]

\* crypto.go:74-87, with the random array filled
keyFrom(distData, randomArray, offset) ==
    IF offset + keySize > distDataSize THEN KeyResult(<<>>, errInvalidOffset)
    ELSE KeyResult([i \in 1 .. keySize |->
                       xorByte(distData[offset + i], randomArray[offset + i])],
                   NoErr)

\* deriveKey (crypto.go:51-88)
deriveKey(distData) ==
    IF Len(distData) # distDataSize THEN KeyResult(<<>>, errInvalidSize)
    ELSE keyFrom(distData, fillFrom(seedOf(distData), <<>>), offsetOf(seedOf(distData)))

\* the inputs: 256 bytes that start with a seed and go on with a pattern,
\* and inputs of other lengths
DistData(b0, b1, b2, b3, p) ==
    [i \in 1 .. distDataSize |->
        CASE i = 1 -> b0 [] i = 2 -> b1 [] i = 3 -> b2 [] i = 4 -> b3
          [] OTHER -> (i * (37 * p + 1) + 101 * p) % 256]

DistDataChoices(maxSeedLow, maxPattern) ==
    {DistData(b0, b1, b2, b3, p) :
        b0 \in 0 .. maxSeedLow, b1 \in {0, 255}, b2 \in {1, 128}, b3 \in {0, 255},
        p \in 0 .. maxPattern}
    \cup {SubSeq(DistData(1, 2, 3, 4, 0), 1, n) : n \in {0, keySize, distDataSize - 1}}
    \cup {DistData(1, 2, 3, 4, 0) \o <<0>>}

KeyInit ==
    /\ cs = Idle /\ env = Idle /\ pc = Idle /\ frame = Idle /\ ret = Idle
    /\ hist = Idle /\ rs = Idle /\ cr = Idle /\ rd = Idle
    /\ tb = Idle /\ rt = Idle /\ pd = Idle
    /\ \E d \in DistDataChoices(MaxSeedLow, MaxPattern) : dk = [distData |-> d, results |-> <<>>, rounds |-> <<>>]

called(r) ==
    [dk EXCEPT !.results = Append(@, r),
               !.rounds = IF Len(dk.distData) = distDataSize
                          THEN fillLog(seedOf(dk.distData), 0) ELSE <<>>]

\* a call of deriveKey on the input
DeriveKey ==
    /\ Len(dk.results) < MaxCalls
    /\ dk' = called(deriveKey(dk.distData))
    /\ UNCHANGED <<cs, env, pc, frame, ret, hist, rs, cr, rd, tb, rt, pd>>

SpecKey == KeyInit /\ [][DeriveKey]_vars

\* the LCG of the claim on the four bytes of the state, least significant
\* first: state*214013 + 2531011 mod 2^32 by long multiplication
LcgNext(st) ==
    LET t0 == st[1] * 214013 + 2531011
        t1 == st[2] * 214013 + t0 \div 256
        t2 == st[3] * 214013 + t1 \div 256
        t3 == st[4] * 214013 + t2 \div 256
    IN  <<t0 % 256, t1 % 256, t2 % 256, t3 % 256>>

\* draw = (state >> 16) & 0x7FFF
LcgDraw(st) == st[3] + 256 * (st[4] % 128)

RECURSIVE RandomArray(_, _)
\* R: draw val, then cnt, write val & 0xFF (cnt & 0x0F) + 1 times, up to 256
\* bytes
RandomArray(st, R) ==
    IF Len(R) >= 256 THEN SubSeq(R, 1, 256)
    ELSE LET val == LcgDraw(LcgNext(st))
             cnt == LcgDraw(LcgNext(LcgNext(st)))
         IN  RandomArray(LcgNext(LcgNext(st)),
                         R \o [j \in 1 .. (cnt % 16) + 1 |-> val % 256])

\* a XOR b on bytes, bit by bit
Xor(a, b) ==
    SumOver([i \in 0 .. 7 |-> (2 ^ i) * (((a \div (2 ^ i)) + (b \div (2 ^ i))) % 2)], 0 .. 7)

KeyOffset == (dk.distData[1] % 16) + 4

ClaimedKey ==
    [i \in 1 .. 16 |->
        Xor(dk.distData[KeyOffset + i],
            RandomArray(SubSeq(dk.distData, 1, 4), <<>>)[KeyOffset + i])]

\* C20: for an input of 256 bytes deriveKey returns, without error, the 16
\* bytes key[i] = distData[offset+i] XOR R[offset+i] with offset =
\* (seed & 0x0F) + 4 and R the array filled from the LCG seeded with the first
\* four bytes; an input of another length is rejected with an error; two
\* calls on the same input return the same
C20_DeriveKey ==
    /\ \A n \in 1 .. Len(dk.results) :
         IF Len(dk.distData) = 256
         THEN dk.results[n].err = NoErr /\ dk.results[n].key = ClaimedKey
         ELSE dk.results[n].err # NoErr /\ dk.results[n].key = <<>>
    /\ \A m, n \in 1 .. Len(dk.results) : dk.results[m] = dk.results[n]

C20_Witness ==
    /\ Len(dk.results) = 2
    /\ dk.distData = DistData(17, 255, 128, 255, 2)
    /\ dk.results[2].err = NoErr
    /\ dk.results[2].key = <<27, 64, 181, 250, 47, 148, 217, 227, 158, 85, 0, 191, 106, 33, 220, 139>>

(***************************************************************************)
(* More claims about the assembly state machine.  What Next does with the  *)
(* next record is stated for every record the stream can give in a         *)
(* reachable state: the number of records a run of the model reads bounds  *)
(* the runs, not the record that may come next.                            *)
(***************************************************************************)
LookAhead == nextRecord(cs, [env EXCEPT !.nread = 0])

\* a record that the table-end check of Next lets through to the switch
Dispatched(c, r) == c.currentTable.nil \/ r.lvl > c.currentTable.tableLevel

ParaEndTypes == {"RecParaCharShape", "RecParaLineSeg"}

\* the text of the open paragraph
OpenText == Concat(cs.currentPara.textParts)

\* the cells of c are those of the table in progress, but for the text of
\* the active cell, which is text
CellsWithActiveText(c, text) ==
    LET t == cs.currentTable
    IN  /\ Len(c.currentTable.cells) = Len(t.cells)
        /\ \A i \in 1 .. Len(t.cells) :
              c.currentTable.cells[i] =
                  IF i = t.currentCell THEN [t.cells[i] EXCEPT !.Text = text]
                  ELSE t.cells[i]

\* C21: a char-shape or line-segment record that arrives while a paragraph
\* is open closes the paragraph; with a table in progress that has an active
\* cell the concatenated parts are appended to that cell's text, after a
\* newline exactly when the cell's text was not empty, and Next goes on
\* without returning; otherwise Next returns a Paragraph with that text.
\* With no paragraph open the record changes nothing.
C21_ParagraphFlush ==
    InNext =>
        \A o \in LookAhead :
            (/\ o.res.kind = "rec"
             /\ o.res.rec.type \in ParaEndTypes
             /\ Dispatched(cs, o.res.rec)) =>
                LET s == nextBody(o.cs, o.res)
                    t == cs.currentTable
                IN  IF cs.currentPara.nil
                    THEN s.to = "loop" /\ s.cs = o.cs
                    ELSE /\ s.cs.currentPara.nil
                         /\ IF ~t.nil /\ t.currentCell # 0
                            THEN /\ s.to = "loop"
                                 /\ s.ret = NoNode
                                 /\ CellsWithActiveText(s.cs,
                                        IF t.cells[t.currentCell].Text = <<>>
                                        THEN OpenText
                                        ELSE t.cells[t.currentCell].Text
                                                 \o <<"\n">> \o OpenText)
                            ELSE /\ s.to = "idle"
                                 /\ s.ret = ParagraphNode(OpenText)
                                 /\ s.cs.currentTable = cs.currentTable

\* a paragraph has been flushed into the active cell of the table in
\* progress, and the next paragraph is open
C21_Witness ==
    /\ pc = "loop"
    /\ TableInProgress
    /\ cs.currentTable.currentCell # 0
    /\ cs.currentTable.cells[cs.currentTable.currentCell].Text # <<>>
    /\ ~cs.currentPara.nil
    /\ ret = NoNode

\* the largest of the numbers in S, or d when none is larger
MaxOf(S, d) == CHOOSE m \in S \cup {d} : \A x \in S \cup {d} : x <= m

\* the payload of a cell list header (record.go:263-270): 33 bytes with the
\* column, row, column span and row span at offsets 8, 10, 12 and 14
CellPayload(col, row, colSpan, rowSpan) ==
    [i \in 1 .. 33 |-> CASE i = 9 -> col [] i = 11 -> row
                         [] i = 13 -> colSpan [] i = 15 -> rowSpan
                         [] OTHER -> 0]

\* span bytes as they are in the stream: 0 is a span not written
CellBytes == {<<0, 0, 1, 1>>, <<1, 1, 2, 2>>, <<0, 0, 0, 0>>}

\* the cell fields of the list header decoded from these bytes
DecodedCell(x) ==
    LET r == decodeListHeaderRecord([TagID |-> recTagListHeader, Level |-> 1, Size |-> 33],
                                    CellPayload(x[1], x[2], x[3], x[4]))
    IN  [RowIndex |-> r.RowIndex, ColIndex |-> r.ColIndex,
         RowSpan |-> r.RowSpan, ColSpan |-> r.ColSpan]

\* the properties of a Table node, given the declared counts
WellFormedTable(node, declared) ==
    /\ node.Rows = MaxOf({node.Cells[i].Row + node.Cells[i].RowSpan :
                             i \in 1 .. Len(node.Cells)}, declared[1])
    /\ node.Cols = MaxOf({node.Cells[i].Col + node.Cells[i].ColSpan :
                             i \in 1 .. Len(node.Cells)}, declared[2])
    /\ node.Rows >= declared[1]
    /\ node.Cols >= declared[2]
    /\ \A i \in 1 .. Len(node.Cells) :
          /\ node.Cells[i].RowSpan >= 1
          /\ node.Cells[i].ColSpan >= 1
          /\ node.Cells[i].Row + node.Cells[i].RowSpan <= node.Rows
          /\ node.Cells[i].Col + node.Cells[i].ColSpan <= node.Cols

\* C22: every Table node Next returns has Rows = max(declared rows, max over
\* its cells of Row + RowSpan) and Cols likewise, so that Rows and Cols are at
\* least the declared counts and every cell has RowSpan >= 1, ColSpan >= 1,
\* Row + RowSpan <= Rows and Col + ColSpan <= Cols; its cells are in the order
\* their list headers were read.  The cell list headers the scanner reads are
\* those decodeListHeaderRecord makes.
C22_TableBounds ==
    /\ CellChoices = {DecodedCell(x) : x \in CellBytes}
    /\ (InNext /\ TableInProgress) =>
          /\ WellFormedTable(BuiltTable, hist.declared)
          /\ CellCoords(BuiltTable.Cells) = hist.cellLog
          /\ \A o \in LookAhead :
                LET s == nextBody(o.cs, o.res)
                IN  s.ret.kind = "Table" => s.ret = BuiltTable
    /\ (InNext /\ ~TableInProgress) =>
          \A o \in LookAhead : nextBody(o.cs, o.res).ret.kind # "Table"

\* a table was returned whose cells go beyond the counts it was declared with
C22_Witness ==
    /\ pc = "idle"
    /\ ret.kind = "Table"
    /\ Len(ret.Cells) >= 2
    /\ ret.Rows = 3 /\ ret.Cols = 3
    /\ ret.Cells[1].Row + ret.Cells[1].RowSpan < ret.Rows

\* the paragraph and table builders of c are those of the current state
SameBuilders(c) ==
    /\ c.currentPara = cs.currentPara
    /\ c.currentTable = cs.currentTable
    /\ c.tableLevel = cs.tableLevel

\* what one round of skipChildren does with each result of its read
SkipRound ==
    \A o \in LookAhead :
        LET s == skipBody(o.cs, o.res, frame.parentLevel)
        IN  /\ SameBuilders(s.cs)
            /\ (o.res.kind = "rec" /\ o.res.rec.lvl > frame.parentLevel) =>
                   ~s.done /\ s.cs = o.cs /\ ~s.cs.hasBuffered
            /\ (o.res.kind = "rec" /\ o.res.rec.lvl <= frame.parentLevel) =>
                   /\ s.done
                   /\ s.cs = putBack(o.cs, o.res.rec)
                   /\ TakesBuffered(s.cs, o.env, o.res.rec)
            /\ o.res.kind = "EOF" => s.done /\ s.cs = o.cs /\ ~s.cs.hasBuffered

\* the record that ended a skip is the one Next reads, and Next treats it
\* as it treats a record read from the stream
AfterSkip ==
    (pc = "loop" /\ cs.hasBuffered) =>
        /\ TakesBuffered(cs, env, cs.bufferedRec)
        /\ TableInProgress /\ cs.bufferedRec.lvl <= cs.currentTable.tableLevel =>
              \A o \in nextRecord(cs, env) :
                  /\ nextBody(o.cs, o.res).to = "idle"
                  /\ nextBody(o.cs, o.res).ret = BuiltTable

\* C23: a control header whose id is neither the table's nor the drawing
\* object's starts a skip at its level and changes nothing else; each
\* following record of a greater level is consumed with no node returned and
\* the paragraph and table builders as they were; the skip ends at the first
\* record at or below the control's level, or at the end of the stream; that
\* record is pushed back and Next then reads it and treats it as any record,
\* the table-end check included.
C23_UnknownControlSkipped ==
    /\ [](InNext =>
            \A o \in LookAhead :
                (/\ o.res.kind = "rec"
                 /\ o.res.rec.type = "RecCtrlHeader"
                 /\ o.res.rec.CtrlID \notin {CtrlIDTable, CtrlIDGso}
                 /\ Dispatched(cs, o.res.rec)) =>
                    LET s == nextBody(o.cs, o.res)
                    IN  /\ s.to = "skip"
                        /\ s.frame = [parentLevel |-> o.res.rec.lvl, after |-> "loop"]
                        /\ s.cs = o.cs
                        /\ s.ret = NoNode)
    /\ []((pc = "skip" /\ frame.after = "loop") => SkipRound)
    /\ []AfterSkip
    /\ [][(pc = "skip" /\ frame.after = "loop") =>
              /\ pc' \in {"skip", "loop"}
              /\ ret' = NoNode
              /\ SameBuilders(cs')
              /\ pc' = "skip" => frame' = frame /\ ~cs'.hasBuffered
              /\ (pc' = "loop" /\ cs'.hasBuffered) =>
                     cs'.bufferedRec.lvl <= frame.parentLevel]_vars

\* inside a table with a paragraph open, a skip has consumed a record and
\* has ended at a record that is pushed back
C23_Witness ==
    /\ pc = "loop"
    /\ cs.hasBuffered
    /\ hist.skipped >= 1
    /\ TableInProgress
    /\ ~cs.currentPara.nil

\* C24: a drawing-object control header starts a skip at its level; each
\* following record of a greater level is consumed, and the step that ends
\* the skip (a record at or below the control's level, which is pushed back,
\* or the end of the stream) returns an Image from the same Next call; a
\* table in progress stays in progress, so that the Image is returned before
\* the Table; the following Next call reads the record pushed back.
C24_DrawingObjectImage ==
    /\ [](InNext =>
            \A o \in LookAhead :
                (/\ o.res.kind = "rec"
                 /\ o.res.rec.type = "RecCtrlHeader"
                 /\ o.res.rec.CtrlID = CtrlIDGso
                 /\ Dispatched(cs, o.res.rec)) =>
                    LET s == nextBody(o.cs, o.res)
                    IN  /\ s.to = "skip"
                        /\ s.frame = [parentLevel |-> o.res.rec.lvl, after |-> "image"]
                        /\ s.cs = o.cs
                        /\ s.ret = NoNode)
    /\ []((pc = "skip" /\ frame.after = "image") => SkipRound)
    /\ []((pc = "idle" /\ ret = ImageNode /\ cs.hasBuffered) =>
              TakesBuffered(cs, env, cs.bufferedRec))
    /\ [][(pc = "skip" /\ frame.after = "image") =>
              /\ pc' \in {"skip", "idle"}
              /\ ret' = IF pc' = "idle" THEN ImageNode ELSE NoNode
              /\ SameBuilders(cs')
              /\ pc' = "skip" => frame' = frame /\ ~cs'.hasBuffered
              /\ (pc' = "idle" /\ cs'.hasBuffered) =>
                     cs'.bufferedRec.lvl <= frame.parentLevel]_vars
    /\ [][ret' = ImageNode /\ pc' = "idle" =>
              pc = "skip" /\ frame.after = "image"]_vars

\* an Image was returned while a table with a cell is in progress, after a
\* skip that consumed a record and pushed the next one back
C24_Witness ==
    /\ pc = "idle"
    /\ ret = ImageNode
    /\ TableInProgress
    /\ Len(cs.currentTable.cells) >= 1
    /\ cs.hasBuffered
    /\ hist.skipped >= 1

\* a table-control marker
IsTableMarker(res) ==
    res.kind = "rec" /\ res.rec.type = "RecCtrlHeader" /\ res.rec.CtrlID = CtrlIDTable

IsRecOf(res, type) == res.kind = "rec" /\ res.rec.type = type

\* C25: a table-control marker sets the pending table level to its own level
\* and does nothing else, and nothing else sets the pending level; a table
\* builder comes into being only by a table record met while no table is in
\* progress, with the declared rows and columns, no cells, no active cell
\* and the pending level as its start level; a list header met while no
\* table is in progress changes nothing.
C25_TableCreation ==
    /\ InNext =>
          \A o \in LookAhead :
              LET s == nextBody(o.cs, o.res)
              IN  /\ (IsTableMarker(o.res) /\ Dispatched(cs, o.res.rec)) =>
                         /\ s.cs = [o.cs EXCEPT !.tableLevel = o.res.rec.lvl]
                         /\ s.to = "loop"
                         /\ s.ret = NoNode
                  /\ s.cs.tableLevel # cs.tableLevel => IsTableMarker(o.res)
                  /\ (cs.currentTable.nil /\ ~s.cs.currentTable.nil) =>
                         IsRecOf(o.res, "RecTable")
                  /\ (IsRecOf(o.res, "RecTable") /\ cs.currentTable.nil) =>
                         /\ s.cs = [o.cs EXCEPT !.currentTable =
                                       [nil |-> FALSE,
                                        rows |-> o.res.rec.RowCount,
                                        cols |-> o.res.rec.ColCount,
                                        cells |-> <<>>, currentCell |-> 0,
                                        tableLevel |-> cs.tableLevel]]
                         /\ s.to = "loop"
                         /\ s.ret = NoNode
                  /\ (IsRecOf(o.res, "RecTable") /\ ~cs.currentTable.nil
                          /\ Dispatched(cs, o.res.rec)) =>
                         s.cs = o.cs /\ s.to = "loop"
                  /\ (IsRecOf(o.res, "RecListHeader") /\ cs.currentTable.nil) =>
                         s.cs = o.cs /\ s.to = "loop" /\ s.ret = NoNode
    /\ pc = "skip" =>
          \A o \in LookAhead : SameBuilders(skipBody(o.cs, o.res, frame.parentLevel).cs)

\* a table was created at the level of a marker that was not at level 0,
\* with its declared counts and no cell
C25_Witness ==
    /\ pc = "loop"
    /\ TableInProgress
    /\ cs.currentTable.tableLevel = 1
    /\ cs.tableLevel = 1
    /\ cs.currentTable.rows = 1 /\ cs.currentTable.cols = 2
    /\ cs.currentTable.cells = <<>>
    /\ cs.currentTable.currentCell = 0
    /\ hist.declared = <<1, 2>>
    /\ env.nread = 3

\* C26: when the content ends, Next returns the table in progress as it is,
\* or EndOfContent when there is none, and every later call returns
\* EndOfContent: a paragraph that is still open is never returned and its
\* text is in no cell.  A paragraph header met while a paragraph is open
\* starts an empty paragraph, returns nothing and leaves every cell as it is.
C26_OpenParagraphDiscarded ==
    InNext =>
        \A o \in LookAhead :
            LET s == nextBody(o.cs, o.res)
            IN  /\ o.res.kind = "EOF" =>
                       /\ s.to = "idle"
                       /\ s.ret = IF TableInProgress THEN BuiltTable ELSE RetEOF
                       /\ s.cs.currentTable.nil
                       /\ \A o2 \in nextRecord(s.cs, o.env) :
                             /\ o2.res.kind = "EOF"
                             /\ nextBody(o2.cs, o2.res).to = "idle"
                             /\ nextBody(o2.cs, o2.res).ret = RetEOF
                             /\ nextBody(o2.cs, o2.res).cs.currentTable.nil
                /\ (IsRecOf(o.res, "RecParaHeader") /\ Dispatched(cs, o.res.rec)) =>
                       /\ s.cs = [o.cs EXCEPT !.currentPara = NewPara]
                       /\ s.to = "loop"
                       /\ s.ret = NoNode

\* the content has ended with a paragraph open that holds text: Next
\* returned EndOfContent
C26_Witness ==
    /\ pc = "idle"
    /\ ret = RetEOF
    /\ ~cs.currentPara.nil
    /\ cs.currentPara.textParts # <<>>
    /\ cs.currentSection >= env.sectionCount
    /\ ~hist.callErr /\ ~hist.errBefore

\* C27: once a table has been returned the state machine is idle: no
\* Paragraph returned afterwards holds text of a paragraph-text record that
\* was read inside that table before it was returned.
C27_NoStaleParagraph ==
    (pc = "idle" /\ ret.kind = "Paragraph") => ~hist.staleReturned

\* C28: the buffer is empty whenever putBack is called, since the nextRecord
\* before it has emptied it; a read with a record buffered returns that
\* record and reads nothing from the stream; the record buffered is the one
\* turned away last; and every record decoded so far has been processed
\* exactly once by the switch of Next or by skipChildren, but for the one
\* that is buffered.
C28_LookaheadBuffer ==
    /\ [](\A o \in LookAhead : ~o.cs.hasBuffered /\ o.cs.bufferedRec = NilRec)
    /\ [](cs.hasBuffered => TakesBuffered(cs, env, cs.bufferedRec))
    /\ [](hist.pending = cs.bufferedRec)
    /\ [](cs.hasBuffered <=> cs.bufferedRec # NilRec)
    /\ [](env.nread = hist.processed + (IF cs.hasBuffered THEN 1 ELSE 0))
    /\ [][cs.hasBuffered => env' = env]_vars
    /\ [][env'.nread \in {env.nread, env.nread + 1}]_vars

\* a record that ended a skip inside a table was pushed back, read again,
\* found to end the table and pushed back once more
C28_Witness ==
    /\ pc = "idle"
    /\ ret.kind = "Table"
    /\ cs.hasBuffered
    /\ hist.pushes = 2
    /\ hist.processed >= 3

\* the text an element stands for, and whether it stands for any
ElText(el) ==
    CASE el.el = "ParaTextString" -> el.Value
      [] el.el = "ParaTextLineBreak" -> <<"\n">>
      [] el.el = "ParaTextTab" -> <<"\t">>
      [] OTHER -> <<>>

IsTextEl(el) == el.el \in {"ParaTextString", "ParaTextLineBreak", "ParaTextTab"}

\* the parts a paragraph-text record adds, in the order of its elements
PartsOf(els) ==
    LET kept == SelectSeq(els, IsTextEl)
    IN  [i \in 1 .. Len(kept) |-> ElText(kept[i])]

\* the characters a paragraph-text record adds
RECURSIVE CharsOf(_)
CharsOf(els) == IF els = <<>> THEN <<>> ELSE ElText(Head(els)) \o CharsOf(Tail(els))

\* C29: a paragraph-text record met while a paragraph is open appends to its
\* parts, for each element in order, the text of a literal run, a newline for
\* a line break, a tab for a tab and nothing for another marker, and changes
\* nothing else; with no paragraph open it changes nothing.  The text the
\* paragraph is flushed with is its text before followed by these characters.
C29_ParagraphText ==
    InNext =>
        \A o \in LookAhead :
            (IsRecOf(o.res, "RecParaText") /\ Dispatched(cs, o.res.rec)) =>
                LET s == nextBody(o.cs, o.res)
                IN  /\ s.to = "loop"
                    /\ s.ret = NoNode
                    /\ IF cs.currentPara.nil
                       THEN s.cs = o.cs
                       ELSE /\ s.cs = [o.cs EXCEPT !.currentPara.textParts =
                                          @ \o PartsOf(o.res.rec.Els)]
                            /\ joinTextParts(s.cs.currentPara.textParts) =
                                   OpenText \o CharsOf(o.res.rec.Els)

\* two paragraph-text records have added a run, a tab, a run and a newline
\* to the open paragraph
C29_Witness ==
    /\ pc = "loop"
    /\ ~cs.currentPara.nil
    /\ cs.currentPara.textParts = << <<"a">>, <<"\t">>, <<"b">>, <<"\n">> >>

(***************************************************************************)
(* paraTextDecoder.decodeParaTextElements (part_001:97-218) on the payload *)
(* of a paragraph-text record (record.go:224-227).  The payload is a       *)
(* sequence of bytes and pd.pos the number of bytes read from it.  A text  *)
(* is the sequence of the code points of its characters.                   *)
(***************************************************************************)
MaxItems == 3       \* characters and controls written into a payload

\* the control codes of part_001:8-56 that have an element type, and the type
markerType(code) ==
    CASE code = 2 -> "ParaTextSectionColDef"
      [] code = 3 -> "ParaTextFieldStart"
      [] code = 4 -> "ParaTextFieldEnd"
      [] code = 8 -> "ParaTextTitleMark"
      [] code = 9 -> "ParaTextTab"
      [] code = 10 -> "ParaTextLineBreak"
      [] code = 11 -> "ParaTextGsoTable"
      [] code = 13 -> "ParaTextParaBreak"
      [] code = 15 -> "ParaTextHiddenComment"
      [] code = 16 -> "ParaTextHeaderFooter"
      [] code = 17 -> "ParaTextFootnoteEndnote"
      [] code = 18 -> "ParaTextAutoNumber"
      [] code = 21 -> "ParaTextPageControl"
      [] code = 22 -> "ParaTextBookmarkIndex"
      [] code = 23 -> "ParaTextAddTextOverlap"
      [] code = 24 -> "ParaTextHyphen"
      [] code = 30 -> "ParaTextBundleSpace"
      [] code = 31 -> "ParaTextFixedSpace"
      [] OTHER -> ""

\* the cases of the switch (part_001:124-213) that call d.skipBytes(14)
skips(code) ==
    code \in {2, 3, 4, 5, 6, 7, 8, 9, 11, 12, 14, 15, 16, 17, 18, 19, 20, 21, 22, 23}

\* string(stringBuffer): a rune that is no valid code point (a surrogate
\* half) becomes U+FFFD
runeToChar(r) == IF r >= 55296 /\ r <= 57343 THEN 65533 ELSE r

stringOfRunes(runes) == [i \in 1 .. Len(runes) |-> runeToChar(runes[i])]

ParaTextStringOf(runes) ==
    [el |-> "ParaTextString", Code |-> 0, Value |-> stringOfRunes(runes)]

ParaTextMarker(code) == [el |-> markerType(code), Code |-> code, Value |-> <<>>]

\* a flush that appends the run whether or not it is empty
flushString_Always(elements, stringBuffer) ==
    Append(elements, ParaTextStringOf(stringBuffer))

\* flushString (part_001:101-109): the elements after it
flushString(elements, stringBuffer) ==
    IF Len(stringBuffer) > 0
    THEN Append(elements, ParaTextStringOf(stringBuffer))
    ELSE elements

\* a skip that reads nothing
skipBytes_None(data, pos, n) == pos

\* skipBytes (part_001:220-222): io.CopyN stops at the end of the data and
\* its error is dropped
skipBytes(data, pos, n) == IF pos + n <= Len(data) THEN pos + n ELSE Len(data)

\* binary.Read of a uint16 at pos (part_001:113): ok is FALSE when fewer than
\* two bytes are left, and the bytes left are consumed
readCode(data, pos) ==
    IF pos + 2 <= Len(data)
    THEN [ok |-> TRUE, code |-> data[pos + 1] + 256 * data[pos + 2], pos |-> pos + 2]
    ELSE [ok |-> FALSE, code |-> 0, pos |-> Len(data)]

\* one round of the for loop (part_001:111-214) that reads a code
decodeCode(d, code, pos) ==
    IF code >= 32
    THEN [d EXCEPT !.pos = pos, !.stringBuffer = Append(@, code)]
    ELSE LET flushed == flushString(d.elements, d.stringBuffer)
         IN  [d EXCEPT
                 !.pos = IF skips(code) THEN skipBytes(d.data, pos, 14) ELSE pos,
                 !.stringBuffer = <<>>,
                 !.elements = IF markerType(code) # ""
                              THEN Append(flushed, ParaTextMarker(code))
                              ELSE flushed]

\* the break of line 114, the flush of line 216 and the return
decodeEnd(d, pos) ==
    [d EXCEPT !.pos = pos, !.stringBuffer = <<>>,
              !.elements = flushString(d.elements, d.stringBuffer),
              !.returned = TRUE]

\* Payloads: up to MaxItems items, each a character (A), a surrogate half
\* (S) or a control (C); the control of a payload is any code below 32, and
\* is followed by nothing, by seven characters or by seven line breaks; the
\* payload may have lost its last bytes.
LE16(u) == <<u % 256, u \div 256>>

RECURSIVE RepeatBytes(_, _)
RepeatBytes(b, n) == IF n = 0 THEN <<>> ELSE b \o RepeatBytes(b, n - 1)

ItemSeqs(maxItems) ==
    UNION {[1 .. n -> {"A", "S", "C"}] : n \in 0 .. maxItems}

FillChoices == {<<>>, RepeatBytes(LE16(66), 7), RepeatBytes(LE16(10), 7)}

RECURSIVE PayloadOf(_, _, _)
PayloadOf(items, code, fill) ==
    IF items = <<>> THEN <<>>
    ELSE (CASE Head(items) = "A" -> LE16(65)
            [] Head(items) = "S" -> LE16(55357)
            [] OTHER -> LE16(code) \o fill)
         \o PayloadOf(Tail(items), code, fill)

CutChoices == {0, 1, 3}

\* the payload written from the items, cut short by cut bytes
CutPayload(items, code, fill, cut) ==
    SubSeq(PayloadOf(items, code, fill), 1, Len(PayloadOf(items, code, fill)) - cut)

ParaPayloads(maxItems) ==
    {CutPayload(x[1], x[2], x[3], x[4]) :
        x \in {y \in ItemSeqs(maxItems) \X (0 .. 31) \X FillChoices \X CutChoices :
                  y[4] <= 2 * Len(y[1])}}

ParaInit ==
    /\ cs = Idle /\ env = Idle /\ pc = Idle /\ frame = Idle /\ ret = Idle
    /\ hist = Idle /\ rs = Idle /\ cr = Idle /\ rd = Idle
    /\ tb = Idle /\ rt = Idle /\ dk = Idle
    /\ \E d \in ParaPayloads(MaxItems) :
          pd = [data |-> d, pos |-> 0, stringBuffer |-> <<>>, elements |-> <<>>,
                returned |-> FALSE]

\* the loop reads a code and goes round
DecodeCode ==
    /\ ~pd.returned
    /\ readCode(pd.data, pd.pos).ok
    /\ pd' = decodeCode(pd, readCode(pd.data, pd.pos).code, readCode(pd.data, pd.pos).pos)
    /\ UNCHANGED <<cs, env, pc, frame, ret, hist, rs, cr, rd, tb, rt, dk>>

\* the read fails: the loop ends and the elements are returned
DecodeEnd ==
    /\ ~pd.returned
    /\ ~readCode(pd.data, pd.pos).ok
    /\ pd' = decodeEnd(pd, readCode(pd.data, pd.pos).pos)
    /\ UNCHANGED <<cs, env, pc, frame, ret, hist, rs, cr, rd, tb, rt, dk>>

ParaNext == DecodeCode \/ DecodeEnd

SpecPara == ParaInit /\ [][ParaNext]_vars

\* the code unit the decoder is at, when two bytes are left
HasUnit == pd.pos + 2 <= Len(pd.data)

Unit == pd.data[pd.pos + 1] + 256 * pd.data[pd.pos + 2]

\* the control codes that have a marker, the unusable and reserved ones that
\* have none, and the ones followed by 14 bytes of parameters
MarkedCodes == {2, 3, 4, 8, 9, 10, 11, 13, 15, 16, 17, 18, 21, 22, 23, 24, 30, 31}

UnmarkedCodes == {0, 1, 5, 6, 7, 12, 14, 19, 20} \cup (25 .. 29)

WideCodes == (2 .. 9) \cup {11, 12} \cup (14 .. 23)

\* the element a pending run is flushed as: none for an empty run
RunElement(pending) ==
    IF pending = <<>> THEN <<>>
    ELSE << [el |-> "ParaTextString", Code |-> 0,
             Value |-> [i \in 1 .. Len(pending) |->
                           IF pending[i] \in 55296 .. 57343 THEN 65533 ELSE pending[i]]] >>

IsMarkerFor(el, code) ==
    /\ el.Code = code
    /\ el.Value = <<>>
    /\ el.el \notin {"", "ParaTextString"}
    /\ el.el = "ParaTextTab" <=> code = 9
    /\ el.el = "ParaTextLineBreak" <=> code = 10

\* what a round does with the pending run and the cursor
RoundOnText ==
    /\ pd'.stringBuffer = Append(pd.stringBuffer, Unit)
    /\ pd'.elements = pd.elements
    /\ pd'.pos = pd.pos + 2
    /\ ~pd'.returned

RoundOnControl ==
    /\ pd'.stringBuffer = <<>>
    /\ pd'.pos = IF Unit \in WideCodes
                 THEN (IF pd.pos + 16 <= Len(pd.data) THEN pd.pos + 16 ELSE Len(pd.data))
                 ELSE pd.pos + 2
    /\ ~pd'.returned

RoundAtEnd ==
    /\ pd'.returned
    /\ pd'.stringBuffer = <<>>
    /\ pd'.elements = pd.elements \o RunElement(pd.stringBuffer)

\* the elements hold no empty run, and the characters of a run are units
\* that were at least 32
ElementsSound ==
    \A i \in 1 .. Len(pd.elements) :
        IF pd.elements[i].el = "ParaTextString"
        THEN /\ pd.elements[i].Value # <<>>
             /\ \A j \in 1 .. Len(pd.elements[i].Value) : pd.elements[i].Value[j] >= 32
        ELSE pd.elements[i].Code \in MarkedCodes /\ IsMarkerFor(pd.elements[i], pd.elements[i].Code)

\* C30 as stated: every unit below 32 flushes the pending run and adds a
\* marker that carries the code.
C30_EveryControlMarked ==
    [][(~pd.returned /\ HasUnit /\ Unit < 32) =>
           /\ RoundOnControl
           /\ Len(pd'.elements) = Len(pd.elements \o RunElement(pd.stringBuffer)) + 1
           /\ SubSeq(pd'.elements, 1, Len(pd'.elements) - 1) =
                  pd.elements \o RunElement(pd.stringBuffer)
           /\ IsMarkerFor(pd'.elements[Len(pd'.elements)], Unit)]_vars

\* C30: the payload is read as little-endian 16-bit units: a unit of 32 or
\* more joins the pending run; a unit below 32 flushes the run, as a text
\* element when it is not empty, adds a marker carrying the code when the
\* code has a marker and nothing when it is unusable or reserved, and, when
\* the control has parameters, jumps over the next 14 bytes or what is left
\* of them; when fewer than two bytes are left the run is flushed and the
\* elements are returned: every round moves the cursor on and no round fails.
C30_ParaTextDecoding ==
    /\ []ElementsSound
    /\ []((pd.pos <= Len(pd.data) /\ pd.pos % 2 = 0) \/ pd.pos = Len(pd.data))
    /\ [](pd.returned => pd.pos = Len(pd.data) /\ pd.stringBuffer = <<>>)
    /\ [][~pd.returned /\ (pd'.returned \/ pd'.pos > pd.pos)]_vars
    /\ [][(HasUnit /\ Unit >= 32) => RoundOnText]_vars
    /\ [][(HasUnit /\ Unit \in MarkedCodes) =>
              /\ RoundOnControl
              /\ pd'.elements = pd.elements \o RunElement(pd.stringBuffer)
                                    \o << [el |-> pd'.elements[Len(pd'.elements)].el,
                                           Code |-> Unit, Value |-> <<>>] >>
              /\ IsMarkerFor(pd'.elements[Len(pd'.elements)], Unit)]_vars
    /\ [][(HasUnit /\ Unit \in UnmarkedCodes) =>
              /\ RoundOnControl
              /\ pd'.elements = pd.elements \o RunElement(pd.stringBuffer)]_vars
    /\ [][~HasUnit => RoundAtEnd]_vars

\* a run, a tab whose 14 bytes of parameters look like text, and a run have
\* been decoded into three elements
C30_Witness ==
    /\ pd.returned
    /\ Len(pd.data) = 20
    /\ Len(pd.elements) = 3
    /\ pd.elements[1].el = "ParaTextString" /\ pd.elements[1].Value = <<65>>
    /\ pd.elements[2].el = "ParaTextTab" /\ pd.elements[2].Code = 9
    /\ pd.elements[3].el = "ParaTextString" /\ pd.elements[3].Value = <<65>>

(***************************************************************************)
(* The list header decoder and what the scanner makes of its records.      *)
(***************************************************************************)
\* the record of ScanNext as the scanner's switch sees it
AsScanned(r) ==
    [MkRec(r.type, r.Level) EXCEPT !.IsCell = r.IsCell,
        !.RowIndex = r.RowIndex, !.ColIndex = r.ColIndex,
        !.RowSpan = r.RowSpan, !.ColSpan = r.ColSpan]

\* a scanner in which a table record of one row and two columns has made a
\* table at level 0
ScannerInTable ==
    tableRec([currentSection |-> 0, scanner |-> TRUE, sectionCloser |-> TRUE,
              bufferedRec |-> NilRec, hasBuffered |-> FALSE,
              currentPara |-> NilPara, currentTable |-> NilTable, tableLevel |-> 0],
             [MkRec("RecTable", 1) EXCEPT !.RowCount = 1, !.ColCount = 2]).cs

ZeroAsOne(b) == IF b = 0 THEN 1 ELSE b

\* C31: a list header is a cell exactly when its payload has 33 bytes or
\* more; the column, the row, the column span and the row span of a cell are
\* the bytes at offsets 8, 10, 12 and 14 of the payload, a span of 0 read as
\* 1; a shorter payload gives no cell, and such a record opens no cell in a
\* table in progress; the paragraph count and the property are read from the
\* first 6 bytes when they are there.
C31_ListHeaderCell ==
    (Decoded /\ rs.res.rec.type = "RecListHeader") =>
        LET data == rs.recs[rs.nrec].payload
            r == rs.res.rec
            s == listHeader(ScannerInTable, AsScanned(r))
        IN  /\ r.IsCell <=> Len(data) >= 33
            /\ r.IsCell =>
                  /\ r.ColIndex = data[8 + 1]
                  /\ r.RowIndex = data[10 + 1]
                  /\ r.ColSpan = ZeroAsOne(data[12 + 1])
                  /\ r.RowSpan = ZeroAsOne(data[14 + 1])
                  /\ s.cs.currentTable.cells =
                         << [Row |-> r.RowIndex, Col |-> r.ColIndex,
                             RowSpan |-> r.RowSpan, ColSpan |-> r.ColSpan,
                             Text |-> <<>>] >>
                  /\ s.cs.currentTable.currentCell = 1
            /\ ~r.IsCell =>
                  /\ r.ColIndex = 0 /\ r.RowIndex = 0
                  /\ r.ColSpan = 0 /\ r.RowSpan = 0
                  /\ s = Continue(ScannerInTable)
            /\ r.ParaCount = IF Len(data) >= 6 THEN data[1] + 256 * data[2] ELSE 0
            /\ r.Property = IF Len(data) >= 6
                            THEN data[3] + 256 * (data[4] + 256 * (data[5] + 256 * data[6]))
                            ELSE 0
            /\ r.Data = <<>>

\* a list header of 33 bytes whose span bytes are zero came back as a cell
\* of one row and one column
C31_Witness ==
    /\ Decoded
    /\ rs.res.rec.type = "RecListHeader"
    /\ Len(rs.recs[rs.nrec].payload) = 33
    /\ rs.recs[rs.nrec].payload[13] = 0
    /\ rs.res.rec.IsCell
    /\ rs.res.rec.ColIndex = 1
    /\ rs.res.rec.ColSpan = 1 /\ rs.res.rec.RowSpan = 1

(***************************************************************************)
(* The border lines of a rendered table against the ownership of the grid  *)
(***************************************************************************)
\* the cell that owns grid position (r, c) of the rendered table: the last
\* cell of the list that spans it, 0 when no cell does
OwnerAt(r, c) ==
    LET over == {i \in 1 .. Len(tb.table.Cells) : <<r, c>> \in Spanned(tb.table.Cells[i])}
    IN  IF over = {} THEN 0 ELSE CHOOSE i \in over : \A j \in over : j <= i

\* the border lines by the row above them: -1 is the top border
OuterBorder(r) == r = -1 \/ r = tb.table.Rows - 1
BorderLineOf(lines, r) == IF r = -1 THEN lines[1] ELSE BorderLineBelow(lines, r)

\* the character of a border line at the junction to the right of column c
JunctionAt(line, c) ==
    line[lineWidth(tb.w.colWidths, 0) - lineWidth(tb.w.colWidths, c + 1) + 1]

SegmentDrawn(r, c) == OuterBorder(r) \/ OwnerAt(r, c) # OwnerAt(r + 1, c)
JunctionDrawn(r, c) ==
    \/ OuterBorder(r)
    \/ OwnerAt(r, c) # OwnerAt(r, c + 1)
    \/ OwnerAt(r + 1, c) # OwnerAt(r + 1, c + 1)

\* C32: on the border line between rows r and r+1 the segment under column c
\* is dashes exactly when the owners of (r,c) and (r+1,c) differ, and blank
\* otherwise; the junction to the right of column c is '+' exactly when the
\* owners of (r,c),(r,c+1) differ or those of (r+1,c),(r+1,c+1) differ; the
\* top border and the border after the last row are dashes throughout with
\* '+' at every junction; every border line starts and ends with '+'
C32_BorderByOwnership ==
    Rendered =>
        LET lines == OutLines(tb.out) IN
        \A r \in -1 .. tb.table.Rows - 1 :
            LET line == BorderLineOf(lines, r) IN
            /\ Head(line) = "+" /\ line[Len(line)] = "+"
            /\ \A c \in 0 .. tb.table.Cols - 1 :
                 LET seg == BorderSegment(line, c) IN
                 /\ Len(seg) = tb.w.colWidths[c] + 2
                 /\ \A k \in 1 .. Len(seg) :
                      seg[k] = IF SegmentDrawn(r, c) THEN "-" ELSE " "
            /\ \A c \in 0 .. tb.table.Cols - 2 :
                 JunctionAt(line, c) = "+" <=> JunctionDrawn(r, c)

\* a rendered 2 x 3 table whose middle border has a blank segment under a
\* row-spanning cell, a drawn one next to it, and both kinds of junction
C32_Witness ==
    /\ Rendered /\ tb.table.Rows = 2 /\ tb.table.Cols = 3
    /\ LET line == BorderLineBelow(OutLines(tb.out), 0) IN
       /\ ~SegmentDrawn(0, 0) /\ SegmentDrawn(0, 1) /\ SegmentDrawn(0, 2)
       /\ JunctionDrawn(0, 0) /\ ~JunctionDrawn(0, 1)
       /\ JunctionAt(line, 0) = "+" /\ JunctionAt(line, 1) # "+"
       /\ BorderSegment(line, 0)[1] = " " /\ BorderSegment(line, 1)[1] = "-"

\* the part of a border line under columns c1 .. c2, junctions between them
\* included
BorderSpan(line, c1, c2) ==
    SubSeq(line, lineWidth(tb.w.colWidths, 0) - lineWidth(tb.w.colWidths, c1) + 2,
                 lineWidth(tb.w.colWidths, 0) - lineWidth(tb.w.colWidths, c2 + 1))

\* C39: in a tiled table a cell that spans several rows and several columns
\* has no border character in its interior: on the border line between two
\* rows of its span every character under its columns, the junctions between
\* its columns included, is a space
C39_SpanInteriorBlank ==
    (Rendered /\ Tiles(tb.table)) =>
        LET lines == OutLines(tb.out) IN
        \A i \in 1 .. Len(tb.table.Cells) :
            LET cell == tb.table.Cells[i] IN
            (cell.RowSpan > 1 /\ cell.ColSpan > 1) =>
                \A r \in cell.Row .. cell.Row + cell.RowSpan - 2 :
                    LET part == BorderSpan(BorderLineBelow(lines, r), cell.Col,
                                           cell.Col + cell.ColSpan - 1)
                    IN  \A k \in 1 .. Len(part) : part[k] = " "

\* a sparse table: the cells lie within the grid without overlap, and some
\* grid position is owned by no cell
Sparse(t) ==
    /\ \A i \in 1 .. Len(t.Cells) :
         /\ t.Cells[i].RowSpan >= 1 /\ t.Cells[i].ColSpan >= 1
         /\ t.Cells[i].Row >= 0 /\ t.Cells[i].Row + t.Cells[i].RowSpan <= t.Rows
         /\ t.Cells[i].Col >= 0 /\ t.Cells[i].Col + t.Cells[i].ColSpan <= t.Cols
    /\ \A r \in 0 .. t.Rows - 1, c \in 0 .. t.Cols - 1 :
         Cardinality({i \in 1 .. Len(t.Cells) : <<r, c>> \in Spanned(t.Cells[i])}) <= 1
    /\ \E r \in 0 .. t.Rows - 1, c \in 0 .. t.Cols - 1 :
         \A i \in 1 .. Len(t.Cells) : <<r, c>> \notin Spanned(t.Cells[i])

\* C38: a rendered sparse table has lines of identical display width,
\* 1 + sum over the columns of (column width + 3): on a content line an
\* unowned position takes a blank field of its column's width and its
\* separator, as an empty single cell would
C38_SparseEqualWidth ==
    (Rendered /\ Sparse(tb.table)) =>
        LET lines == OutLines(tb.out)
            width == lineWidth(tb.w.colWidths, 0)
        IN  \A k \in 1 .. Len(lines) : displayWidth(lines[k]) = width

(***************************************************************************)
(* The ranges inside deriveKey                                             *)
(***************************************************************************)
\* C40: for every input of 256 bytes the key offset (seed & 0x0F) + 4 lies in
\* 4..19, so offset + 16 <= 35 and deriveKey never fails with 'invalid key
\* offset'; each draw of the generator lies in 0..0x7FFF, each run length in
\* 1..16, and the fill loop writes exactly 256 bytes, going forward in every
\* round and ending after at most 256 pairs of draws
C40_KeyRanges ==
    (Len(dk.distData) = 256 /\ dk.results # <<>>) =>
        LET offset == offsetOf(seedOf(dk.distData))
            rounds == dk.rounds
        IN  /\ offset \in 4 .. 19 /\ offset + 16 <= 35
            /\ \A n \in 1 .. Len(dk.results) :
                 dk.results[n].err = NoErr /\ Len(dk.results[n].key) = 16
            /\ \A k \in 1 .. Len(rounds) :
                 /\ rounds[k].val \in 0 .. 32767 /\ rounds[k].cnt \in 0 .. 32767
                 /\ rounds[k].c \in 1 .. 16
                 /\ rounds[k].to - rounds[k].from \in 1 .. rounds[k].c
                 /\ rounds[k].from = IF k = 1 THEN 0 ELSE rounds[k - 1].to
            /\ Len(rounds) \in 1 .. 256
            /\ rounds[Len(rounds)].to = 256
            /\ Len(fillFrom(seedOf(dk.distData), <<>>)) = 256

\* a call with the largest offset whose fill loop had runs of 1 and of 16 bytes
\* and cut its last run at the end of the array
C40_Witness ==
    /\ Len(dk.distData) = 256 /\ dk.results # <<>>
    /\ offsetOf(seedOf(dk.distData)) = 19
    /\ dk.results[1].err = NoErr
    /\ \E k \in 1 .. Len(dk.rounds) : dk.rounds[k].c = 1
    /\ \E k \in 1 .. Len(dk.rounds) : dk.rounds[k].c = 16
    /\ dk.rounds[Len(dk.rounds)].to - dk.rounds[Len(dk.rounds)].from
         < dk.rounds[Len(dk.rounds)].c

(***************************************************************************)
(* The section streams: env.events lists the streams opened and closed,    *)
(* in the order the scanner opened and closed them.                        *)
(***************************************************************************)
\* the number of section streams open after the first n events
OpenAfter(ev, n) ==
    Cardinality({k \in 1 .. n : ev[k][1] = "open"})
    - Cardinality({k \in 1 .. n : ev[k][1] = "close"})

\* C33: at most one section stream is open at any time: a section is closed
\* before the next one is opened, the sections are opened in index order
\* 0, 1, ..., each at most once and none beyond SectionCount - 1, every close
\* is of the section opened last, and once the last section is exhausted no
\* stream is open and the scanner has none
C33_OneSectionOpen ==
    (pc \in {"idle", "loop", "skip"}) =>
        LET ev == env.events IN
        /\ \A n \in 0 .. Len(ev) : OpenAfter(ev, n) \in {0, 1}
        /\ \A n \in 1 .. Len(ev) :
             IF ev[n][1] = "open"
             THEN /\ ev[n][2] = Cardinality({k \in 1 .. n - 1 : ev[k][1] = "open"})
                  /\ ev[n][2] < env.sectionCount
             ELSE n > 1 /\ ev[n - 1] = <<"open", ev[n][2]>>
        /\ cs.sectionCloser <=> OpenAfter(ev, Len(ev)) = 1
        /\ cs.sectionCloser <=> cs.scanner
        /\ cs.sectionCloser =>
             ev[Len(ev)] = <<"open", cs.currentSection>>
        /\ cs.currentSection >= env.sectionCount =>
             /\ OpenAfter(ev, Len(ev)) = 0 /\ ~cs.scanner
             /\ \A o \in LookAhead : o.env.events = ev /\ ~o.cs.sectionCloser

\* the last of two sections has been exhausted: each was opened once and
\* closed, in order
C33_Witness ==
    /\ pc = "idle" /\ env.sectionCount = 2 /\ cs.currentSection = 2
    /\ env.events = << <<"open", 0>>, <<"close", 0>>, <<"open", 1>>, <<"close", 1>> >>
    /\ ~cs.sectionCloser /\ ~cs.scanner
    /\ env.nread >= 2

\* C34: once Next has returned the end of content every later call returns
\* it again: the call reads no record, opens and closes no section, returns
\* no node and no other error, and leaves the scanner as it was
C34_EndOfContentSticky ==
    /\ (pc = "idle" /\ ret.kind = "EOF") =>
          \A o \in LookAhead :
              /\ o.res = ResEOF
              /\ o.env = [env EXCEPT !.nread = 0]
              /\ o.cs = cs
              /\ nextBody(o.cs, o.res) = Return(cs, RetEOF)
    /\ (pc = "idle" /\ hist.eofBefore) => ret = RetEOF
    /\ hist.eofBefore => pc = "idle"

\* Next has returned the end of content a second time, after two sections
\* with records
C34_Witness ==
    /\ pc = "idle" /\ hist.eofBefore /\ ret = RetEOF
    /\ env.sectionCount = 2 /\ env.opened = <<0, 1>> /\ env.nread >= 2

\* the texts of the cells of the table in progress
CellTexts(c) == [i \in 1 .. Len(c.currentTable.cells) |-> c.currentTable.cells[i].Text]

\* C36: a paragraph header leads to at most one flush: once a char-shape or
\* line-segment record has closed its paragraph, no paragraph is open until
\* the next paragraph header, and a further char-shape, line-segment or
\* paragraph-text record returns no Paragraph and changes no cell text (a
\* table it ends is returned with the cells as they were)
C36_OneFlushPerHeader ==
    /\ hist.closed > 0 => cs.currentPara.nil
    /\ (InNext /\ hist.closed > 0) =>
          \A o \in LookAhead :
              (/\ o.res.kind = "rec"
               /\ o.res.rec.type \in ParaEndTypes \cup {"RecParaText"}) =>
                  LET s == nextBody(o.cs, o.res) IN
                  /\ s.ret.kind # "Paragraph"
                  /\ s.cs.currentPara.nil
                  /\ IF Dispatched(cs, o.res.rec)
                     THEN s.to = "loop" /\ s.cs = o.cs
                     ELSE /\ s.ret.kind = "Table"
                          /\ s.ret.Cells = cs.currentTable.cells

\* a paragraph was flushed into the active cell of the table in progress,
\* and one more record of these types has been processed since
C36_Witness ==
    /\ pc = "loop" /\ hist.closed >= 2
    /\ ~cs.currentTable.nil /\ cs.currentTable.currentCell # 0
    /\ cs.currentTable.cells[cs.currentTable.currentCell].Text # <<>>

\* C37: there is one table builder at a time: with a table in progress no
\* step puts another builder in its place; a table record that arrives
\* leaves rows, cols, cells, active cell and start level as they are; a
\* table-control marker nested in the table changes the pending level only;
\* and a record ends the table exactly when its level is at or below the
\* pending level captured when the table record created the builder
C37_OneTableBuilder ==
    /\ TableInProgress => cs.currentTable.tableLevel = hist.startLevel
    /\ (InNext /\ TableInProgress) =>
          \A o \in LookAhead :
              LET s == nextBody(o.cs, o.res) IN
              /\ ~s.cs.currentTable.nil =>
                    /\ s.cs.currentTable.tableLevel = hist.startLevel
                    /\ Len(s.cs.currentTable.cells) >= Len(cs.currentTable.cells)
                    /\ \A i \in 1 .. Len(cs.currentTable.cells) :
                          [s.cs.currentTable.cells[i] EXCEPT
                              !.Text = cs.currentTable.cells[i].Text]
                            = cs.currentTable.cells[i]
              /\ o.res.kind = "rec" =>
                    ((s.to = "idle" /\ s.ret.kind = "Table")
                        <=> o.res.rec.lvl <= hist.startLevel)
              /\ (IsRecOf(o.res, "RecTable") /\ o.res.rec.lvl > hist.startLevel) =>
                    s.cs = o.cs /\ s.to = "loop"
              /\ (IsTableMarker(o.res) /\ o.res.rec.lvl > hist.startLevel) =>
                    /\ s.cs.currentTable = cs.currentTable
                    /\ s.cs.tableLevel = o.res.rec.lvl
                    /\ s.to = "loop"
                    /\ \A r \in Recs :
                          LET s2 == nextBody(s.cs, ResRec(r)) IN
                          (s2.to = "idle" /\ s2.ret.kind = "Table")
                              <=> r.lvl <= hist.startLevel

\* inside a table in progress that has a cell, a nested marker has raised
\* the pending level and a further table record has been processed
C37_Witness ==
    /\ pc = "loop" /\ TableInProgress
    /\ hist.redeclared
    /\ cs.tableLevel > cs.currentTable.tableLevel
    /\ hist.declared[1] >= 1
    /\ Len(cs.currentTable.cells) >= 1

(***************************************************************************)
(* Termination of Next                                                     *)
(***************************************************************************)
\* the original wording of C35: a record that has been pushed back is never
\* pushed back again
C35_NeverPushedAgain == hist.pushes <= 1

\* what is left to do: the records the streams can still give, the sections
\* and the state of the stream, the buffered record, the table in progress
\* and the place in Next, in this order of weight
Remaining(c, e, p) ==
    LET left == IF c.currentSection < e.sectionCount
                THEN e.sectionCount - c.currentSection ELSE 0
        strm == CASE e.strm = "ok" -> 2 [] e.strm = "drained" -> 1 [] OTHER -> 0
        place == CASE p = "skip" -> 2 [] p = "loop" -> 1 [] OTHER -> 0
    IN  ((((MaxRecs - e.nread) * 16 + 3 * left + strm) * 2
            + (IF c.hasBuffered THEN 1 ELSE 0)) * 2
            + (IF c.currentTable.nil THEN 0 ELSE 1)) * 3 + place

\* C35: over finitely many sections of finitely many records every round of
\* Next and of skipChildren brings the scanner nearer to the end (it takes a
\* record from the stream or from the buffer, uses up a stream, returns the
\* table in progress or leaves skipChildren) unless it returns the end of
\* content or an error, so every call returns and repeated calls come to the
\* end of content or an error; a pushed-back record is what the very next
\* read gives, without a read of the stream; a record pushed back by the
\* table-end check is processed by that read (the table is cleared) and not
\* pushed back again; a record pushed back by skipChildren can be pushed
\* back once more, by the table-end check, and none more than twice
C35_Termination ==
    /\ [](Remaining(cs, env, pc) >= 0)
    /\ [][\/ Remaining(cs', env', pc') < Remaining(cs, env, pc)
          \/ pc' = "idle" /\ ret'.kind \in {"EOF", "error"}]_vars
    /\ [](hist.pushes <= 2)
    /\ [](cs.hasBuffered =>
            \A o \in LookAhead :
                /\ o.res = ResRec(cs.bufferedRec)
                /\ o.env = [env EXCEPT !.nread = 0]
                /\ ~o.cs.hasBuffered)
    /\ []((cs.hasBuffered /\ hist.pushes = 2) =>
            (pc = "idle" /\ ret.kind = "Table" /\ cs.currentTable.nil))
    /\ []((cs.hasBuffered /\ cs.currentTable.nil) =>
            \A o \in LookAhead : ~nextBody(o.cs, o.res).cs.hasBuffered)
    /\ [][(cs.hasBuffered /\ pc = "idle" /\ ret.kind = "Table") =>
            (~cs'.hasBuffered /\ hist'.processed = hist.processed + 1)]_vars

\* the scanner has reached the end of content after a record was pushed back
\* by skipChildren and again by the table-end check
C35_Witness ==
    /\ pc = "idle" /\ ret.kind = "EOF"
    /\ hist.twice /\ ~cs.hasBuffered
    /\ hist.processed >= 3 /\ env.nread = hist.processed

====
